---- MODULE Spec2Model ----
(***************************************************************************)
(* A model of 7352A_E_controller.py: the Sampler thread (MeasurementClass), *)
(* the control surface (DMMApp's handlers, run one at a time by the GUI     *)
(* thread) and the graph page's buffers (GraphDisplayPage).                 *)
(*                                                                          *)
(* Python strings are sequences of one-character strings, so that split(),  *)
(* strip(), startswith(), endswith() and the slice command[5:] are computed.*)
(* A float is a record [k, n, d]: k = "num" is the rational n/d (d > 0, in  *)
(* lowest terms), "negzero" is -0.0, "nan" is NaN, "inf" is n * infinity;   *)
(* k = "str" is the Python string 'Overload' and k = "none" is None.        *)
(***************************************************************************)
EXTENDS Integers, Sequences, FiniteSets, TLC

\* ------------------------------------------------------------------ bounds
MaxSessions == 2   \* Sampler threads created in one run
MaxLog == 2        \* Samples appended to data_list in one run
MaxTime == 2       \* the wall clock stops advancing here
MaxTriggers == 1    \* TRIGGER requests in one run
MaxWindow == 3      \* window entries up to which the graph page is entered

Sessions == 1..MaxSessions

\* ----------------------------------------------------------------- strings
STOP == <<"S", "T", "O", "P">>
TRIGGER == <<"T", "R", "I", "G", "G", "E", "R">>
SEND_ == <<"S", "E", "N", "D", " ">>
RST == <<"*", "R", "S", "T">>
TRG == <<"*", "T", "R", "G">>
CLS == <<"*", "C", "L", "S">>
OPC == <<"*", "O", "P", "C", "?">>
DSP1_ == <<"D", "S", "P", "1", ",">>
DSP1_F3 == DSP1_ \o <<"F", "3">>
TRS0 == <<"T", "R", "S", "0">>
TRS3 == <<"T", "R", "S", "3">>

\* str.startswith(p)
StartsWith(s, p) == Len(s) >= Len(p) /\ SubSeq(s, 1, Len(p)) = p
\* str.endswith(c) for a one-character c
EndsWith(s, c) == Len(s) >= 1 /\ s[Len(s)] = c
\* the slice s[n:]
SliceFrom(s, n) == SubSeq(s, n + 1, Len(s))

IsSpace(c) == c = " "

RECURSIVE LStrip(_)
LStrip(s) == IF s # <<>> /\ IsSpace(s[1]) THEN LStrip(Tail(s)) ELSE s

RECURSIVE RStrip(_)
RStrip(s) ==
    IF s # <<>> /\ IsSpace(s[Len(s)]) THEN RStrip(SubSeq(s, 1, Len(s) - 1)) ELSE s

\* str.strip()
Strip(s) == RStrip(LStrip(s))

FirstIndex(s, c) ==
    IF \E i \in 1..Len(s) : s[i] = c
    THEN CHOOSE i \in 1..Len(s) : s[i] = c /\ \A j \in 1..(i - 1) : s[j] # c
    ELSE 0

\* str.split(sep): the pieces between separators, empty pieces kept
RECURSIVE SplitOn(_, _)
SplitOn(s, sep) ==
    LET i == FirstIndex(s, sep)
    IN  IF i = 0 THEN <<s>>
        ELSE <<SubSeq(s, 1, i - 1)>> \o SplitOn(SubSeq(s, i + 1, Len(s)), sep)

\* str.split(): the runs of non-whitespace characters
RECURSIVE SplitWs(_)
SplitWs(s) ==
    LET t == LStrip(s)
        i == FirstIndex(t, " ")
    IN  IF t = <<>> THEN <<>>
        ELSE IF i = 0 THEN <<t>>
        ELSE <<SubSeq(t, 1, i - 1)>> \o SplitWs(SubSeq(t, i + 1, Len(t)))

\* ------------------------------------------------------------------ values
Num(n) == [k |-> "num", n |-> n, d |-> 1]
NegZero == [k |-> "negzero", n |-> 0, d |-> 1]
NaN == [k |-> "nan", n |-> 0, d |-> 1]
Inf == [k |-> "inf", n |-> 1, d |-> 1]
NegInf == [k |-> "inf", n |-> -1, d |-> 1]
Overload == [k |-> "str", n |-> 0, d |-> 1]
None == [k |-> "none", n |-> 0, d |-> 1]
\* what float() raises on text that is no number
ValueError == [k |-> "ValueError", n |-> 0, d |-> 1]

IsFloat(x) == x.k \in {"num", "negzero", "nan", "inf"}
IsZero(x) == x.k = "negzero" \/ (x.k = "num" /\ x.n = 0)

\* float(value_str), on the literals the modelled instrument lines carry
ParseFloat(s) ==
    CASE s = <<"0">> -> Num(0)
      [] s = <<"1">> -> Num(1)
      [] s = <<"-", "0", ".", "0">> -> NegZero
      [] s = <<"2">> -> Num(2)
      [] s = <<"5">> -> Num(5)
      [] s = <<"1", "0">> -> Num(10)
      [] s = <<"-", "5">> -> Num(-5)
      [] s = <<"n", "a", "n">> -> NaN
      [] s = <<"i", "n", "f">> -> Inf
      [] s = <<"-", "i", "n", "f">> -> NegInf
      [] OTHER -> ValueError

UnparseableNever(value) == FALSE

\* "except ValueError: continue" around float(value_str)
Unparseable(value) == value.k = "ValueError"

\* One part of a response line: the reading it carries, or None when the part
\* is skipped (empty, fewer than two tokens, unparseable number, other prefix).
PartValue(part) ==
    LET p == Strip(part)
        tokens == SplitWs(p)
    IN  IF p = <<>> THEN None
        ELSE IF Len(tokens) < 2 THEN None
        ELSE LET prefix == tokens[1]
                 value_str == tokens[2]
                 value == ParseFloat(value_str)
             IN  IF EndsWith(prefix, "_")
                 THEN IF Unparseable(value) THEN None
                      ELSE IF IsZero(value) THEN Num(0)
                      ELSE value
                 ELSE IF EndsWith(prefix, "O") THEN Overload
                 ELSE None

RECURSIVE ParsePartsOverwrite(_, _, _, _)
ParsePartsOverwrite(parts, i, ach_value, bch_value) ==
    IF i > Len(parts) THEN <<ach_value, bch_value>>
    ELSE LET value == PartValue(parts[i])
         IN  IF value = None THEN ParsePartsOverwrite(parts, i + 1, ach_value, bch_value)
             ELSE IF ach_value = None THEN ParsePartsOverwrite(parts, i + 1, value, bch_value)
             ELSE ParsePartsOverwrite(parts, i + 1, ach_value, value)

\* the for loop of read_measurement over parts[i..]
RECURSIVE ParseParts(_, _, _, _)
ParseParts(parts, i, ach_value, bch_value) ==
    IF i > Len(parts) THEN <<ach_value, bch_value>>
    ELSE LET value == PartValue(parts[i])
         IN  IF value = None THEN ParseParts(parts, i + 1, ach_value, bch_value)
             ELSE IF ach_value = None THEN ParseParts(parts, i + 1, value, bch_value)
             ELSE IF bch_value = None THEN ParseParts(parts, i + 1, ach_value, value)
             ELSE ParseParts(parts, i + 1, ach_value, bch_value)

\* What dmm.read() can deliver: a response line, or a raised error.
VisaTimeout == <<"VisaIOError", "VI_ERROR_TMO">>
VisaFault == <<"VisaIOError", "VI_ERROR_CONN_LOST">>
OtherError == <<"Exception">>

\* "except pyvisa.errors.VisaIOError" catches the error
IsVisaIOError(response) == response # <<>> /\ response[1] = "VisaIOError"

\* read_measurement(): <<ach_value, bch_value>> for a response line; a
\* VisaIOError raised by dmm.read() gives <<None, None>>.
read_measurement(response) ==
    IF IsVisaIOError(response) THEN <<None, None>>
    ELSE LET r == ParseParts(SplitOn(Strip(response), ","), 1, None, None)
         IN  IF r[1] = None THEN <<None, None>> ELSE r

\* ------------------------------------------------------------------- state
VARIABLES
    \* DMMApp
    gui_pc,               \* where the GUI thread is: "idle", inside a handler, or gone
    page,                 \* stacked_widget.currentWidget()
    to_put,               \* start_measurement: commands still to put on the queue
    setup_dialog,         \* the modal setup-wait dialog is showing
    setup_timer,          \* setup_timer is active
    timer,                \* a QTimer driving update_from_shared_memory is active
    jig_mode, jig_mode_name, trigger_mode, measurement_mode_bch,
    measurement_process,  \* 0 for None, else the thread's number
    session,              \* threads created so far; is_ready_event is that of the last
    stop_event, is_ready_event,
    last_read_index,
    new_data_count,       \* update_from_shared_memory's local, between its two reads
    command_queue, data_list,
    \* MeasurementClass, one per thread
    pc, dmm, command, start_time,
    now,                  \* time.time()
    \* GraphDisplayPage
    gp,
    \* history
    enq,                  \* every command put on command_queue, in order
    deq,                  \* every command taken from command_queue, in order
    wire,                 \* per thread: transport operations of the handshake in progress
    after_stop,           \* per thread: -1, or the Samples appended since it took STOP
    batch,                \* the last tick: cursor before, cursor after, data_slice
    fault,                \* the exception that ended the last GUI handler, or "none"
    triggers,             \* TRIGGER requests so far
    retries,              \* parity of the completion-poll retries so far
    \* function-level specifications
    arg,                  \* the inputs given so far to the function under evaluation
    result                \* what its last evaluation returned or raised

vars == <<gui_pc, page, to_put, setup_dialog, setup_timer, timer, jig_mode,
          jig_mode_name, trigger_mode, measurement_mode_bch, measurement_process,
          session, stop_event, is_ready_event, last_read_index, new_data_count,
          command_queue, data_list, pc, dmm, command, start_time, now, gp, enq, deq,
          wire, after_stop, batch, fault, triggers, retries, arg, result>>

guiVars == <<gui_pc, page, to_put, setup_dialog, setup_timer, timer, jig_mode,
             jig_mode_name, trigger_mode, measurement_mode_bch, measurement_process,
             session, last_read_index, new_data_count, gp, enq, batch, fault,
             triggers, arg, result>>

\* ----------------------------------------------------------------- Sampler
is_alive(t) == pc[t] \notin {"idle", "done"}

InHandshake(t) == pc[t] = "hs_poll"

\* The process is gone once an unhandled exception in a slot has aborted it.
Running == gui_pc # "aborted"

OpenFailedGoesOn == "loop"

\* run(): the "return" that ends the handler of a failed open
OpenFailed == "done"

\* run(): open_resource and the handle's settings; a failure ends the thread.
Open(t, ok) ==
    /\ Running /\ pc[t] = "open"
    /\ IF ok
       THEN /\ dmm' = [dmm EXCEPT ![t] = "open"]
            /\ start_time' = [start_time EXCEPT ![t] = now]
            /\ pc' = [pc EXCEPT ![t] = "loop"]
       ELSE /\ pc' = [pc EXCEPT ![t] = OpenFailed]
            /\ UNCHANGED <<dmm, start_time>>
    /\ UNCHANGED <<guiVars, retries, stop_event, is_ready_event, command_queue, data_list,
                   command, now, deq, wire, after_stop>>

LoopForever(stop) == TRUE

\* run(): "while not self.stop_event.is_set()"
LoopGoesOn(stop) == ~stop

\* run(): the test of the while condition.
LoopTest(t) ==
    /\ Running /\ pc[t] = "loop"
    /\ pc' = [pc EXCEPT ![t] = IF LoopGoesOn(stop_event) THEN "drain" ELSE "close"]
    /\ UNCHANGED <<guiVars, retries, stop_event, is_ready_event, command_queue, data_list,
                   dmm, command, start_time, now, deq, wire, after_stop>>

DispatchTriggerWrite(c) ==
    IF c = STOP THEN [kind |-> "stop", text |-> <<>>]
    ELSE IF StartsWith(c, SEND_) THEN [kind |-> "handshake", text |-> SliceFrom(c, 5)]
    ELSE IF c = TRIGGER THEN [kind |-> "write", text |-> TRG]
    ELSE [kind |-> "ignore", text |-> <<>>]

DispatchNoStop(c) ==
    IF StartsWith(c, SEND_) THEN [kind |-> "handshake", text |-> SliceFrom(c, 5)]
    ELSE IF c = TRIGGER THEN [kind |-> "handshake", text |-> TRG]
    ELSE [kind |-> "ignore", text |-> <<>>]

\* check_commands() that takes every string for a command text
DispatchSendsAll(c) ==
    IF c = STOP THEN [kind |-> "stop", text |-> <<>>]
    ELSE IF StartsWith(c, SEND_) THEN [kind |-> "handshake", text |-> SliceFrom(c, 5)]
    ELSE IF c = TRIGGER THEN [kind |-> "handshake", text |-> TRG]
    ELSE [kind |-> "handshake", text |-> c]

\* check_commands(): what one dequeued command asks for.
Dispatch(c) ==
    IF c = STOP THEN [kind |-> "stop", text |-> <<>>]
    ELSE IF StartsWith(c, SEND_) THEN [kind |-> "handshake", text |-> SliceFrom(c, 5)]
    ELSE IF c = TRIGGER THEN [kind |-> "handshake", text |-> TRG]
    ELSE [kind |-> "ignore", text |-> <<>>]

QueueGetLast(q) == [item |-> q[Len(q)], rest |-> SubSeq(q, 1, Len(q) - 1)]

\* command_queue.get()
QueueGet(q) == [item |-> Head(q), rest |-> Tail(q)]

\* send_command() up to the poll: write *CLS, clear(), write the command, write
\* *OPC?, each with its settle delay, as the transport operations in order.
HsOps(text) == <<CLS, <<"clear">>, text, OPC>>

\* The operations done when the transport raises at operation number fail
\* (0: none fails). The exception is caught by send_command's outer handler,
\* which ends the command.
HsDone(text, fail) ==
    IF fail = 0 THEN HsOps(text) ELSE SubSeq(HsOps(text), 1, fail - 1)

\* check_commands(): one turn of its while loop: the test of empty(), get(),
\* and for a command that asks for it send_command() up to its poll loop.
Drain(t, fail) ==
    /\ Running /\ pc[t] = "drain"
    /\ IF command_queue = <<>>
       THEN /\ pc' = [pc EXCEPT ![t] = "read"]
            /\ fail = 0
            /\ UNCHANGED <<command_queue, deq, stop_event, command, after_stop, wire>>
       ELSE LET got == QueueGet(command_queue)
                d == Dispatch(got.item)
            IN  /\ command_queue' = got.rest
                /\ deq' = Append(deq, got.item)
                /\ stop_event' = (stop_event \/ d.kind = "stop")
                /\ after_stop' = IF d.kind = "stop" /\ after_stop[t] < 0
                                 THEN [after_stop EXCEPT ![t] = 0] ELSE after_stop
                /\ d.kind # "handshake" => fail = 0
                /\ command' = [command EXCEPT ![t] = d.text]
                /\ wire' = [wire EXCEPT ![t] =
                               IF d.kind = "handshake" THEN HsDone(d.text, fail)
                               ELSE IF d.kind = "write" THEN <<d.text>>
                               ELSE <<>>]
                /\ pc' = [pc EXCEPT ![t] = IF d.kind = "handshake" /\ fail = 0
                                           THEN "hs_poll" ELSE "drain"]
    /\ UNCHANGED <<guiVars, retries, is_ready_event, data_list, dmm, start_time, now>>

\* What the poll loop does with one dmm.read(): "done" on the token "1",
\* "retry" on any other line and on a VisaIOError, "abort" on any other error.
PollOutcome(response) ==
    IF response = OtherError THEN "abort"
    ELSE IF IsVisaIOError(response) THEN "retry"
    ELSE IF Strip(response) = <<"1">> THEN "done"
    ELSE "retry"

\* the poll loop sleeps before it reads again: "time.sleep(0.2)" in the handler
PollDelay(response) == IsVisaIOError(response)

\* a poll loop that takes a response line carrying a measurement for a Sample
HsPollAppends(t, response) ==
    /\ Running /\ pc[t] = "hs_poll"
    /\ IF PollOutcome(response) = "retry"
       THEN /\ retries' = 1 - retries
            /\ UNCHANGED <<pc, wire>>
       ELSE /\ pc' = [pc EXCEPT ![t] = "drain"]
            /\ wire' = [wire EXCEPT ![t] =
                           IF PollOutcome(response) = "done" THEN Append(@, <<"1">>)
                           ELSE @]
            /\ retries' = 0
    /\ data_list' = IF /\ response # OtherError
                       /\ read_measurement(response)[1] # None
                       /\ Len(data_list) < MaxLog
                    THEN Append(data_list, <<now - start_time[t]>> \o read_measurement(response))
                    ELSE data_list
    /\ UNCHANGED <<guiVars, stop_event, is_ready_event, command_queue,
                   dmm, command, start_time, now, deq, after_stop>>

\* send_command(): one turn of the completion poll.
HsPoll(t, response) ==
    /\ Running /\ pc[t] = "hs_poll"
    /\ IF PollOutcome(response) = "retry"
       THEN /\ retries' = 1 - retries
            /\ UNCHANGED <<pc, wire>>
       ELSE /\ pc' = [pc EXCEPT ![t] = "drain"]
            /\ wire' = [wire EXCEPT ![t] =
                           IF PollOutcome(response) = "done" THEN Append(@, <<"1">>)
                           ELSE @]
            /\ retries' = 0
    /\ UNCHANGED <<guiVars, stop_event, is_ready_event, command_queue, data_list,
                   dmm, command, start_time, now, deq, after_stop>>

\* time.sleep(0.005): the clock moves on (and stops at MaxTime).
Slept(n, dt) == IF n + dt <= MaxTime THEN n + dt ELSE n

LogKeepLatest(list, sample) == <<sample>>

\* self.data_list.append(sample)
LogAppend(list, sample) == Append(list, sample)

AcceptsAny(ach_value) == TRUE

\* run(): "if ach_value is not None"
Accepts(ach_value) == ach_value # None

SetReadyNever(is_set) == is_set

CaughtNever(response) == FALSE

\* run(): "except Exception" around the body of an iteration catches whatever
\* read_measurement lets through
Caught(response) == TRUE

\* run(): "if not self.is_ready_event.is_set(): self.is_ready_event.set()"
SetReady(is_set) == TRUE

\* run(): read_measurement(), the append, the ready flag, the sleep.
Read(t, response, dt) ==
    /\ Running /\ pc[t] = "read"
    /\ LET r == IF response = OtherError THEN <<None, None>>
                ELSE read_measurement(response)
       IN  IF Accepts(r[1])
           THEN /\ Len(data_list) < MaxLog
                /\ data_list' = LogAppend(data_list, <<now - start_time[t], r[1], r[2]>>)
                /\ is_ready_event' = [is_ready_event EXCEPT ![t] = SetReady(@)]
                /\ after_stop' = IF after_stop[t] >= 0
                                 THEN [after_stop EXCEPT ![t] = @ + 1] ELSE after_stop
           ELSE UNCHANGED <<data_list, is_ready_event, after_stop>>
    /\ now' = Slept(now, dt)
    /\ pc' = [pc EXCEPT ![t] = IF response = OtherError /\ ~Caught(response)
                               THEN "done" ELSE "loop"]
    /\ UNCHANGED <<guiVars, retries, stop_event, command_queue, dmm, command, start_time,
                   deq, wire>>

\* run(): dmm.close() and the thread's end; its locals go with it.
Close(t) ==
    /\ Running /\ pc[t] = "close"
    /\ dmm' = [dmm EXCEPT ![t] = "closed"]
    /\ pc' = [pc EXCEPT ![t] = "done"]
    /\ command' = [command EXCEPT ![t] = <<>>]
    /\ wire' = [wire EXCEPT ![t] = <<>>]
    /\ start_time' = [start_time EXCEPT ![t] = 0]
    /\ UNCHANGED <<guiVars, retries, stop_event, is_ready_event, command_queue, data_list,
                   now, deq, after_stop>>

\* --------------------------------------------------------- float arithmetic
RECURSIVE Gcd(_, _)
Gcd(a, b) == IF b = 0 THEN a ELSE Gcd(b, a % b)

Abs(n) == IF n < 0 THEN -n ELSE n
Sign(n) == IF n < 0 THEN -1 ELSE 1

\* the rational n/d (d # 0) in lowest terms with a positive denominator
Rat(n, d) ==
    LET g == Gcd(Abs(n), Abs(d))
    IN  [k |-> "num", n |-> (Sign(d) * n) \div g, d |-> Abs(d) \div g]

\* the sign of a float that is no NaN
SignOf(x) == IF x.k = "negzero" THEN -1 ELSE IF x.n < 0 THEN -1 ELSE 1

TypeError == [k |-> "TypeError", n |-> 0, d |-> 1]
ZeroDivisionError == [k |-> "ZeroDivisionError", n |-> 0, d |-> 1]

IsFault(x) == x.k \in {"TypeError", "ZeroDivisionError", "OverflowError"}

\* math.isnan(x): "TypeError" for a str or None, else TRUE or FALSE
isnan(x) == IF ~IsFloat(x) THEN "TypeError" ELSE IF x.k = "nan" THEN "True" ELSE "False"

\* math.isinf(x) of a float
isinf(x) == x.k = "inf"

\* a / b of two floats
FDiv(a, b) ==
    IF IsZero(b) THEN ZeroDivisionError
    ELSE IF a.k = "nan" \/ b.k = "nan" THEN NaN
    ELSE IF a.k = "inf" /\ b.k = "inf" THEN NaN
    ELSE IF a.k = "inf" THEN [k |-> "inf", n |-> SignOf(a) * SignOf(b), d |-> 1]
    ELSE IF b.k = "inf" \/ IsZero(a)
         THEN IF SignOf(a) * SignOf(b) < 0 THEN NegZero ELSE Num(0)
    ELSE Rat(a.n * b.d, a.d * b.n)

\* a * b of two floats
FMul(a, b) ==
    IF a.k = "nan" \/ b.k = "nan" THEN NaN
    ELSE IF (a.k = "inf" /\ IsZero(b)) \/ (b.k = "inf" /\ IsZero(a)) THEN NaN
    ELSE IF a.k = "inf" \/ b.k = "inf"
         THEN [k |-> "inf", n |-> SignOf(a) * SignOf(b), d |-> 1]
    ELSE IF IsZero(a) \/ IsZero(b)
         THEN IF SignOf(a) * SignOf(b) < 0 THEN NegZero ELSE Num(0)
    ELSE Rat(a.n * b.n, a.d * b.d)

\* abs(x) of a float
FAbs(x) ==
    IF x.k = "negzero" THEN Num(0)
    ELSE IF x.k = "nan" THEN x
    ELSE [x EXCEPT !.n = Abs(x.n)]

\* -------------------------------------------------------- derived quantity
\* jig_modes, by the names used here for the five Japanese mode names
JigNames == {"4T_A_V", "4T_B_V", "hFE", "PowerSmall", "PowerLarge"}

\* the guard "ach_value != 0 and not isnan(ach_value) and not isnan(bch_value)":
\* "True", "False", or "TypeError" when isnan is reached with a str or None
RatioGuard(a, b) ==
    IF IsFloat(a) /\ IsZero(a) THEN "False"
    ELSE IF isnan(a) # "False" THEN (IF isnan(a) = "True" THEN "False" ELSE "TypeError")
    ELSE IF isnan(b) # "False" THEN (IF isnan(b) = "True" THEN "False" ELSE "TypeError")
    ELSE "True"

\* the guard "not isnan(ach_value) and not isnan(bch_value)"
ProductGuard(a, b) ==
    IF isnan(a) # "False" THEN (IF isnan(a) = "True" THEN "False" ELSE "TypeError")
    ELSE IF isnan(b) # "False" THEN (IF isnan(b) = "True" THEN "False" ELSE "TypeError")
    ELSE "True"

\* the calculated_value of update_from_shared_memory for one Sample, or the
\* exception it raises; catches is TRUE where ZeroDivisionError is caught
Calculated(name, a, b, catches) ==
    LET ratio == name \in {"4T_A_V", "4T_B_V"}
        guard == IF name \in {"4T_A_V", "4T_B_V", "hFE"} THEN RatioGuard(a, b)
                 ELSE ProductGuard(a, b)
        q == IF ratio THEN FDiv(a, b) ELSE FDiv(b, a)
    IN  IF name \notin JigNames THEN Inf
        ELSE IF guard = "TypeError" THEN TypeError
        ELSE IF guard = "False" THEN Inf
        ELSE IF name \in {"PowerSmall", "PowerLarge"} THEN FMul(a, b)
        ELSE IF q = ZeroDivisionError THEN (IF catches THEN Inf ELSE q)
        ELSE IF ratio THEN FAbs(q)
        ELSE q

\* update_from_shared_memory's reduction (ZeroDivisionError is caught)
CalculatedTick(name, a, b) == Calculated(name, a, b, TRUE)

\* load_data_from_list's reduction (no try around the division)
CalculatedLoad(name, a, b) == Calculated(name, a, b, FALSE)

\* what format_si_unit(value) raises, if anything: math.floor(inf) overflows
FormatFault(value) ==
    IF value.k = "inf" THEN "OverflowError" ELSE "none"

\* the label text of one channel: "value == 'Overload' or math.isnan(value)",
\* else format_si_unit(value); the exception raised, or "none"
LabelFault(value) ==
    IF value.k = "str" THEN "none"
    ELSE IF value.k = "none" THEN "TypeError"
    ELSE IF value.k = "nan" THEN "none"
    ELSE FormatFault(value)

\* --------------------------------------------------------------- sequences
\* the members of S below n + 1, in increasing order
RECURSIVE Ordered(_, _)
Ordered(S, n) ==
    IF n = 0 THEN <<>>
    ELSE IF n \in S THEN Append(Ordered(S, n - 1), n) ELSE Ordered(S, n - 1)

\* [seq[i] for i in idx]
Sub(seq, idx) == [j \in 1..Len(idx) |-> seq[idx[j]]]

\* some index of idx is out of seq's range
OutOfRange(seq, idx) == \E j \in 1..Len(idx) : idx[j] > Len(seq)

SeqMin(s) == CHOOSE x \in {s[i] : i \in 1..Len(s)} : \A i \in 1..Len(s) : x <= s[i]
SeqMax(s) == CHOOSE x \in {s[i] : i \in 1..Len(s)} : \A i \in 1..Len(s) : x >= s[i]
Max2(a, b) == IF a >= b THEN a ELSE b
Min2(a, b) == IF a <= b THEN a ELSE b
Last(s) == s[Len(s)]

\* --------------------------------------------------------- GraphDisplayPage
\* float(self.time_input.text()), 10 when the text is no number
max_display_time(text) ==
    LET v == ParseFloat(text) IN IF v.k = "num" THEN v.n ELSE 10

\* zip(time_values, calculated_values) filtered by "not math.isinf(c)"
FiniteIdx(calculated_values, n) ==
    Ordered({i \in 1..n : i <= Len(calculated_values) /\ ~isinf(calculated_values[i])}, n)

\* the rows update_graph records in jig mode: zip(time_values, calculated_values)
\* with time_values already replaced by filtered_time
RecordedJig(filtered_time, calculated_values) ==
    LET n == Min2(Len(filtered_time), Len(calculated_values))
        keep == Ordered({i \in 1..n : ~isinf(calculated_values[i])}, n)
    IN  [j \in 1..Len(keep) |-> <<filtered_time[keep[j]], calculated_values[keep[j]]>>]

\* the rows update_graph records outside jig mode
RecordedPlain(g, time_values, ach_values, bch_values) ==
    LET combined_b == IF bch_values # <<>> THEN bch_values
                      ELSE [i \in 1..Len(ach_values) |-> None]
        n == Min2(Len(time_values), Min2(Len(ach_values), Len(combined_b)))
    IN  [i \in 1..n |-> IF g.bch_desc
                        THEN <<time_values[i], ach_values[i], combined_b[i]>>
                        ELSE <<time_values[i], ach_values[i]>>]

\* update_graph: the page after the call and the exception that ended it
\* ("none" when it returned). An empty bch_values or calculated_values stands
\* for None as well: the code only tests their truth. Drawing is not modelled.
update_graph(g, ach_values, bch_values, time_values, calculated_values) ==
    LET td1 == g.time_data \o time_values
        jig == g.jig_mode /\ calculated_values # <<>>
        fin == FiniteIdx(calculated_values, Len(time_values))
        filtered_time == Sub(time_values, fin)
        cd1 == IF jig THEN g.calculated_data \o Sub(calculated_values, fin)
               ELSE g.calculated_data
        ad1 == IF jig THEN g.ach_data ELSE g.ach_data \o ach_values
        with_b == g.bch_desc /\ bch_values # <<>>
        bd1 == IF ~jig /\ with_b THEN g.bch_data \o bch_values ELSE g.bch_data
        mdt == max_display_time(g.time_input)
        min_time == IF mdt > 0 THEN Max2(0, Last(td1) - mdt) ELSE SeqMin(td1)
        max_time == IF mdt > 0 THEN Last(td1) ELSE SeqMax(td1)
        indices == Ordered({i \in 1..Len(td1) :
                               min_time <= td1[i] /\ td1[i] <= max_time}, Len(td1))
        td2 == Sub(td1, indices)
        g1 == [g EXCEPT !.time_data = td2, !.calculated_data = cd1,
                        !.ach_data = ad1, !.bch_data = bd1]
        g2 == IF jig THEN [g1 EXCEPT !.calculated_data = Sub(cd1, indices)]
              ELSE [g1 EXCEPT !.ach_data = Sub(ad1, indices)]
        g3 == IF ~jig /\ with_b THEN [g2 EXCEPT !.bch_data = Sub(bd1, indices)] ELSE g2
        label == IF jig THEN "none"
                 ELSE IF ach_values # <<>> /\ LabelFault(Last(ach_values)) # "none"
                      THEN LabelFault(Last(ach_values))
                 ELSE IF with_b THEN LabelFault(Last(bch_values))
                 ELSE "none"
        rows == IF jig THEN RecordedJig(filtered_time, calculated_values)
                ELSE RecordedPlain(g, time_values, ach_values, bch_values)
        g4 == IF g.recording THEN [g3 EXCEPT !.recorded_data = @ \o rows] ELSE g3
    IN  IF td1 = <<>> THEN [gp |-> g, fault |-> "none"]
        ELSE IF jig /\ OutOfRange(cd1, indices) THEN [gp |-> g1, fault |-> "IndexError"]
        ELSE IF ~jig /\ OutOfRange(ad1, indices) THEN [gp |-> g1, fault |-> "IndexError"]
        ELSE IF ~jig /\ with_b /\ OutOfRange(bd1, indices)
             THEN [gp |-> g2, fault |-> "IndexError"]
        ELSE IF OutOfRange(td2, indices) THEN [gp |-> g3, fault |-> "IndexError"]
        ELSE IF ~jig /\ g.bch_desc /\ ~with_b
             THEN [gp |-> g3, fault |-> "UnboundLocalError"]
        ELSE IF label # "none" THEN [gp |-> g3, fault |-> label]
        ELSE [gp |-> g4, fault |-> "none"]

\* The three lists a handler builds from a run of Samples: the derived values
\* in jig mode, else the channel values. "fault" names the exception the
\* reduction raised on the first Sample it fails on.
Lists(samples, jig, name, bch, catches) ==
    LET calc == [i \in 1..Len(samples) |->
                    Calculated(name, samples[i][2], samples[i][3], catches)]
        bad == {i \in 1..Len(samples) : IsFault(calc[i])}
    IN  [time_values |-> [i \in 1..Len(samples) |-> samples[i][1]],
         calculated_values |-> IF jig THEN calc ELSE <<>>,
         ach_values |-> IF jig THEN <<>> ELSE [i \in 1..Len(samples) |-> samples[i][2]],
         bch_values |-> IF ~jig /\ bch THEN [i \in 1..Len(samples) |-> samples[i][3]]
                        ELSE <<>>,
         fault |-> IF jig /\ bad # {}
                   THEN calc[CHOOSE i \in bad : \A j \in bad : i <= j].k ELSE "none"]

\* the call of update_graph that ends load_data_from_list and the tick
FeedGraph(g, l, jig) ==
    IF jig /\ l.calculated_values # <<>>
    THEN update_graph(g, <<>>, <<>>, l.time_values, l.calculated_values)
    ELSE IF l.ach_values # <<>>
    THEN update_graph(g, l.ach_values, l.bch_values, l.time_values, <<>>)
    ELSE [gp |-> g, fault |-> "none"]

\* load_data_from_list(data_list, jig_mode, jig_mode_name, measurement_mode_bch)
load_data_from_list(g, samples, jig, name, bch) ==
    LET l == Lists(samples, jig, name, bch, FALSE)
    IN  IF l.fault # "none" THEN [gp |-> g, fault |-> l.fault]
        ELSE FeedGraph(g, l, jig)

\* ValueDisplayPage.update_values on the latest Sample: the exception it
\* raises, or "none" (the label texts are not part of the state)
update_values(l, jig, bch_desc) ==
    IF jig THEN "none"
    ELSE IF l.ach_values = <<>> THEN "none"
    ELSE IF LabelFault(Last(l.ach_values)) # "none" THEN LabelFault(Last(l.ach_values))
    ELSE IF bch_desc
         THEN LabelFault(IF l.bch_values # <<>> THEN Last(l.bch_values) ELSE None)
    ELSE "none"

\* reset_graph()
reset_graph(g) ==
    [g EXCEPT !.time_input = <<"1", "0">>, !.ach_data = <<>>, !.bch_data = <<>>,
              !.calculated_data = <<>>, !.time_data = <<>>, !.recorded_data = <<>>]

\* ------------------------------------------------------------------ DMMApp
\* What the setup page hands over: the mode, the jig mode's name ("None"
\* outside jig mode), whether a second channel is selected, the trigger mode.
Config(jig, name, bch, trig) ==
    [jig_mode |-> jig, jig_mode_name |-> name, bch |-> bch, trigger_mode |-> trig]

\* jig_modes: the DSP1 key of each jig mode; F3 stands for the user's choice
\* outside jig mode
Dsp1Key(cfg) ==
    CASE cfg.jig_mode_name \in {"4T_A_V", "PowerLarge"} -> <<"F", "1">>
      [] cfg.jig_mode_name = "4T_B_V" -> <<"F", "1", "2">>
      [] cfg.jig_mode_name \in {"hFE", "PowerSmall"} -> <<"F", "5">>
      [] OTHER -> <<"F", "3">>

\* get_setup_commands(): the DSP1 command and the trigger-mode command. The
\* range, DSP2, auto-zero and sampling-rate commands it also returns are
\* further entries of the same list and are left out.
get_setup_commands(cfg) == <<DSP1_ \o Dsp1Key(cfg), cfg.trigger_mode>>

\* start_measurement: "SEND *RST", then "SEND <cmd>" for each setup command
StartPuts(setup_commands) ==
    <<SEND_ \o RST>> \o [i \in 1..Len(setup_commands) |-> SEND_ \o setup_commands[i]]

ProcessAliveNever == FALSE

\* self.measurement_process and self.measurement_process.is_alive()
ProcessAlive == measurement_process # 0 /\ is_alive(measurement_process)

\* A handler is run when the GUI thread is idle; the user reaches the main
\* window's buttons only while the modal setup dialog is not showing.
GuiIdle == gui_pc = "idle"
UserIdle == gui_pc = "idle" /\ ~setup_dialog

samplerVars == <<pc, dmm, command, start_time, now, deq, wire, after_stop, retries,
                 arg, result>>

\* command_queue.put(c)
Put(c) ==
    /\ command_queue' = Append(command_queue, c)
    /\ enq' = Append(enq, c)

\* start_measurement from stop_event.clear() to the thread's start()
Launch ==
    /\ stop_event' = FALSE
    /\ session' = session + 1
    /\ measurement_process' = session + 1
    /\ pc' = [pc EXCEPT ![session + 1] = "open"]
    /\ gui_pc' = "put"

go_to_dmm_setup ==
    /\ UserIdle /\ page = "device"
    /\ page' = "setup"
    /\ fault' = "none"
    /\ UNCHANGED <<gui_pc, to_put, setup_dialog, setup_timer, timer, jig_mode,
                   jig_mode_name, trigger_mode, measurement_mode_bch,
                   measurement_process, session, last_read_index, new_data_count, gp,
                   enq, batch, triggers, stop_event, is_ready_event, command_queue,
                   data_list, samplerVars>>

\* go_to_mode_selection up to the thread's start inside start_measurement, or
\* up to the join inside stop_measurement when a Sampler is alive.
go_to_mode_selection(cfg) ==
    /\ GuiIdle /\ session < MaxSessions
    /\ get_setup_commands(cfg) # <<>>
    /\ trigger_mode' = cfg.trigger_mode
    /\ measurement_mode_bch' = cfg.bch
    /\ jig_mode' = cfg.jig_mode
    /\ jig_mode_name' = cfg.jig_mode_name
    /\ gp' = [gp EXCEPT !.jig_mode = cfg.jig_mode, !.bch_desc = cfg.bch]
    /\ to_put' = StartPuts(get_setup_commands(cfg))
    /\ fault' = "none"
    /\ IF ProcessAlive
       THEN /\ Put(STOP)
            /\ gui_pc' = "join_start"
            /\ UNCHANGED <<stop_event, session, measurement_process, pc>>
       ELSE /\ Launch
            /\ UNCHANGED <<command_queue, enq>>
    /\ UNCHANGED <<page, setup_dialog, setup_timer, timer, last_read_index,
                   new_data_count, batch, triggers, is_ready_event, data_list, dmm,
                   command, start_time, now, deq, wire, after_stop, retries, arg, result>>

\* start_measurement: join() has returned; the rest of stop_measurement, then
\* the new thread.
JoinStart ==
    /\ gui_pc = "join_start" /\ ~ProcessAlive
    /\ timer' = FALSE
    /\ page' = "mode"
    /\ Launch
    /\ UNCHANGED <<to_put, setup_dialog, setup_timer, jig_mode, jig_mode_name,
                   trigger_mode, measurement_mode_bch, last_read_index, new_data_count,
                   gp, enq, batch, fault, triggers, is_ready_event, command_queue,
                   data_list, dmm, command, start_time, now, deq, wire, after_stop,
                   retries, arg, result>>

\* start_measurement: one command_queue.put; after the last one the timer is
\* started and go_to_mode_selection shows the setup dialog.
PutNext ==
    /\ gui_pc = "put" /\ to_put # <<>>
    /\ Put(Head(to_put))
    /\ to_put' = Tail(to_put)
    /\ IF Tail(to_put) = <<>>
       THEN /\ timer' = TRUE
            /\ setup_dialog' = TRUE
            /\ setup_timer' = TRUE
            /\ page' = "mode"
            /\ gui_pc' = "idle"
       ELSE UNCHANGED <<timer, setup_dialog, setup_timer, page, gui_pc>>
    /\ UNCHANGED <<jig_mode, jig_mode_name, trigger_mode, measurement_mode_bch,
                   measurement_process, session, last_read_index, new_data_count, gp,
                   batch, fault, triggers, stop_event, is_ready_event, data_list,
                   samplerVars>>

\* check_dmm_ready, when the ready flag is set (a leaked setup timer of an
\* earlier session is not modelled)
check_dmm_ready ==
    /\ GuiIdle /\ setup_timer /\ session > 0 /\ is_ready_event[session]
    /\ setup_timer' = FALSE
    /\ setup_dialog' = FALSE
    /\ page' = "mode"
    /\ fault' = "none"
    /\ UNCHANGED <<gui_pc, to_put, timer, jig_mode, jig_mode_name, trigger_mode,
                   measurement_mode_bch, measurement_process, session, last_read_index,
                   new_data_count, gp, enq, batch, triggers, stop_event,
                   is_ready_event, command_queue, data_list, samplerVars>>

\* the user closes the setup dialog; its timer keeps running
dismiss_setup_dialog ==
    /\ GuiIdle /\ setup_dialog
    /\ setup_dialog' = FALSE
    /\ UNCHANGED <<gui_pc, page, to_put, setup_timer, timer, jig_mode, jig_mode_name,
                   trigger_mode, measurement_mode_bch, measurement_process, session,
                   last_read_index, new_data_count, gp, enq, batch, fault, triggers,
                   stop_event, is_ready_event, command_queue, data_list, samplerVars>>

\* go_to_value_display, switch_display_mode: the page changes
ShowPage(from, to) ==
    /\ UserIdle /\ page \in from
    /\ page' = to
    /\ fault' = "none"
    /\ UNCHANGED <<gui_pc, to_put, setup_dialog, setup_timer, timer, jig_mode,
                   jig_mode_name, trigger_mode, measurement_mode_bch,
                   measurement_process, session, last_read_index, new_data_count, gp,
                   enq, batch, triggers, stop_event, is_ready_event, command_queue,
                   data_list, samplerVars>>

go_to_value_display == ShowPage({"mode"}, "value")
switch_display_mode == ShowPage({"value", "graph"}, "mode")

\* An exception that leaves a slot either is printed, the event loop going on,
\* or aborts the process: both outcomes of the Qt binding are kept.
AfterSlot(f, abort) == IF f # "none" /\ abort THEN "aborted" ELSE "idle"

go_to_graph_display(abort) ==
    /\ UserIdle /\ page = "mode"
    /\ page' = "graph"
    /\ LET r == load_data_from_list(gp, data_list, jig_mode, jig_mode_name,
                                    measurement_mode_bch)
       IN  /\ gp' = r.gp
           /\ fault' = r.fault
           /\ gui_pc' = AfterSlot(r.fault, abort)
           /\ abort => r.fault # "none"
    /\ UNCHANGED <<to_put, setup_dialog, setup_timer, timer, jig_mode, jig_mode_name,
                   trigger_mode, measurement_mode_bch, measurement_process, session,
                   last_read_index, new_data_count, enq, batch, triggers, stop_event,
                   is_ready_event, command_queue, data_list, samplerVars>>

ToggleWithoutClear(g) == [g EXCEPT !.recording = ~g.recording]

\* toggle_recording(): a new capture starts empty; stopping leaves the rows to
\* save_recorded_data, which writes them out and keeps them
toggle_recording(g) ==
    IF ~g.recording THEN [g EXCEPT !.recording = TRUE, !.recorded_data = <<>>]
    ELSE [g EXCEPT !.recording = FALSE]

\* A button of the graph page, pressed while the page is showing
GraphButton(g) ==
    /\ UserIdle /\ page = "graph"
    /\ gp' = g
    /\ fault' = "none"
    /\ UNCHANGED <<gui_pc, page, to_put, setup_dialog, setup_timer, timer, jig_mode,
                   jig_mode_name, trigger_mode, measurement_mode_bch,
                   measurement_process, session, last_read_index, new_data_count,
                   enq, batch, triggers, stop_event, is_ready_event, command_queue,
                   data_list, samplerVars>>

recording_button == GraphButton(toggle_recording(gp))
reset_graph_button == GraphButton(reset_graph(gp))

send_trigger ==
    /\ UserIdle /\ page \in {"value", "graph"}
    /\ trigger_mode = TRS3
    /\ triggers < MaxTriggers
    /\ triggers' = triggers + 1
    /\ Put(TRIGGER)
    /\ fault' = "none"
    /\ UNCHANGED <<gui_pc, page, to_put, setup_dialog, setup_timer, timer, jig_mode,
                   jig_mode_name, trigger_mode, measurement_mode_bch,
                   measurement_process, session, last_read_index, new_data_count, gp,
                   batch, stop_event, is_ready_event, data_list, samplerVars>>

\* update_from_shared_memory: len(self.data_list), and the early return
TickLen ==
    /\ GuiIdle /\ timer
    /\ Len(data_list) - last_read_index > 0
    /\ new_data_count' = Len(data_list) - last_read_index
    /\ gui_pc' = "tick"
    /\ UNCHANGED <<page, to_put, setup_dialog, setup_timer, timer, jig_mode,
                   jig_mode_name, trigger_mode, measurement_mode_bch,
                   measurement_process, session, last_read_index, gp, enq, batch,
                   fault, triggers, stop_event, is_ready_event, command_queue,
                   data_list, samplerVars>>

\* self.data_list[self.last_read_index:]
DataSlice(list, from) == SubSeq(list, from + 1, Len(list))

\* update_from_shared_memory: the slice, the cursor, the reduction, the page
\* that is showing
TickSlice(abort) ==
    /\ gui_pc = "tick"
    /\ LET data_slice == DataSlice(data_list, last_read_index)
           l == Lists(data_slice, jig_mode, jig_mode_name, measurement_mode_bch, TRUE)
           shown == IF page = "value"
                    THEN [gp |-> gp,
                          fault |-> update_values(l, jig_mode, measurement_mode_bch)]
                    ELSE IF page = "graph" THEN FeedGraph(gp, l, jig_mode)
                    ELSE [gp |-> gp, fault |-> "none"]
           r == IF l.fault # "none" THEN [gp |-> gp, fault |-> l.fault] ELSE shown
       IN  /\ last_read_index' = last_read_index + new_data_count
           /\ batch' = [from |-> last_read_index,
                        to |-> last_read_index + new_data_count,
                        slice |-> data_slice]
           /\ gp' = r.gp
           /\ fault' = r.fault
           /\ gui_pc' = AfterSlot(r.fault, abort)
           /\ abort => r.fault # "none"
    /\ new_data_count' = 0
    /\ UNCHANGED <<page, to_put, setup_dialog, setup_timer, timer, jig_mode,
                   jig_mode_name, trigger_mode, measurement_mode_bch,
                   measurement_process, session, enq, triggers, stop_event,
                   is_ready_event, command_queue, data_list, samplerVars>>

\* reset_application after the join: the fields, reset_graph, the first page
ResetRest ==
    /\ trigger_mode' = <<>>
    /\ measurement_mode_bch' = FALSE
    /\ jig_mode' = FALSE
    /\ jig_mode_name' = "None"
    /\ gp' = reset_graph(gp)
    /\ page' = "device"
    /\ fault' = "none"

reset_application ==
    /\ UserIdle /\ page \in {"mode", "value", "graph"}
    /\ IF ProcessAlive
       THEN /\ Put(STOP)
            /\ gui_pc' = "join_reset"
            /\ UNCHANGED <<trigger_mode, measurement_mode_bch, jig_mode, jig_mode_name,
                           gp, page, fault>>
       ELSE /\ ResetRest
            /\ UNCHANGED <<gui_pc, command_queue, enq>>
    /\ UNCHANGED <<to_put, setup_dialog, setup_timer, timer, measurement_process,
                   session, last_read_index, new_data_count, batch, triggers,
                   stop_event, is_ready_event, data_list, samplerVars>>

JoinReset ==
    /\ gui_pc = "join_reset" /\ ~ProcessAlive
    /\ measurement_process' = 0
    /\ ResetRest
    /\ gui_pc' = "idle"
    /\ UNCHANGED <<to_put, setup_dialog, setup_timer, timer, session, last_read_index,
                   new_data_count, enq, batch, triggers, stop_event, is_ready_event,
                   command_queue, data_list, samplerVars>>

\* stop_measurement after the join
StopRest ==
    /\ timer' = FALSE
    /\ page' = "mode"
    /\ fault' = "none"

stop_measurement ==
    /\ GuiIdle
    /\ IF ProcessAlive
       THEN /\ Put(STOP)
            /\ gui_pc' = "join_stop"
            /\ UNCHANGED <<timer, page, fault>>
       ELSE /\ StopRest
            /\ UNCHANGED <<gui_pc, command_queue, enq>>
    /\ UNCHANGED <<to_put, setup_dialog, setup_timer, jig_mode, jig_mode_name,
                   trigger_mode, measurement_mode_bch, measurement_process, session,
                   last_read_index, new_data_count, gp, batch, triggers, stop_event,
                   is_ready_event, data_list, samplerVars>>

JoinStop ==
    /\ gui_pc = "join_stop" /\ ~ProcessAlive
    /\ measurement_process' = 0
    /\ StopRest
    /\ gui_pc' = "idle"
    /\ UNCHANGED <<to_put, setup_dialog, setup_timer, jig_mode, jig_mode_name,
                   trigger_mode, measurement_mode_bch, session, last_read_index,
                   new_data_count, gp, enq, batch, triggers, stop_event,
                   is_ready_event, command_queue, data_list, samplerVars>>

closeEvent ==
    /\ GuiIdle
    /\ IF ProcessAlive
       THEN /\ Put(STOP)
            /\ gui_pc' = "join_close"
       ELSE /\ gui_pc' = "closed"
            /\ UNCHANGED <<command_queue, enq>>
    /\ UNCHANGED <<page, to_put, setup_dialog, setup_timer, timer, jig_mode,
                   jig_mode_name, trigger_mode, measurement_mode_bch,
                   measurement_process, session, last_read_index, new_data_count, gp,
                   batch, fault, triggers, stop_event, is_ready_event, data_list,
                   samplerVars>>

JoinClose ==
    /\ gui_pc = "join_close" /\ ~ProcessAlive
    /\ gui_pc' = "closed"
    /\ UNCHANGED <<page, to_put, setup_dialog, setup_timer, timer, jig_mode,
                   jig_mode_name, trigger_mode, measurement_mode_bch,
                   measurement_process, session, last_read_index, new_data_count, gp,
                   enq, batch, fault, triggers, stop_event, is_ready_event,
                   command_queue, data_list, samplerVars>>

\* ------------------------------------------------------------ specification
\* GraphDisplayPage.__init__
GraphDisplayPage ==
    [time_data |-> <<>>, ach_data |-> <<>>, bch_data |-> <<>>,
     calculated_data |-> <<>>, recording |-> FALSE, recorded_data |-> <<>>,
     time_input |-> <<"1", "0">>, jig_mode |-> FALSE, bch_desc |-> FALSE]

\* DMMApp.__init__ and the threads not yet created
InitApp ==
    /\ gui_pc = "idle"
    /\ page = "device"
    /\ to_put = <<>>
    /\ setup_dialog = FALSE
    /\ setup_timer = FALSE
    /\ timer = FALSE
    /\ jig_mode = FALSE
    /\ jig_mode_name = "None"
    /\ trigger_mode = <<>>
    /\ measurement_mode_bch = FALSE
    /\ measurement_process = 0
    /\ session = 0
    /\ stop_event = FALSE
    /\ is_ready_event = [t \in Sessions |-> FALSE]
    /\ last_read_index = 0
    /\ new_data_count = 0
    /\ command_queue = <<>>
    /\ data_list = <<>>
    /\ pc = [t \in Sessions |-> "idle"]
    /\ dmm = [t \in Sessions |-> "none"]
    /\ command = [t \in Sessions |-> <<>>]
    /\ start_time = [t \in Sessions |-> 0]
    /\ now = 0
    /\ enq = <<>>
    /\ deq = <<>>
    /\ wire = [t \in Sessions |-> <<>>]
    /\ after_stop = [t \in Sessions |-> -1]
    /\ batch = [from |-> 0, to |-> 0, slice |-> <<>>]
    /\ fault = "none"
    /\ triggers = 0
    /\ retries = 0

Init ==
    /\ InitApp
    /\ gp = GraphDisplayPage
    /\ arg = <<>>
    /\ result = <<>>

\* Response lines of the instrument
LineAB == <<"D", "C", "V", "_", " ", "1", "0", ",", "D", "C", "I", "_", " ", "2">>
LineNone == <<"E", "R", "R">>
Token1 == <<"1">>

EngineResponses == {LineAB, LineNone, VisaTimeout, OtherError}
PollResponses == {Token1, LineAB, VisaTimeout, VisaFault, OtherError}
EngineConfigs == {Config(FALSE, "None", TRUE, TRS3)}

\* Where the transport raises inside a handshake: nowhere, or at the write of
\* the command; a failure of another write ends the command the same way.
EngineFails == {0, 3}

\* One step of the sampler thread of session t
SamplerStep(t, responses, steps, fails) ==
    \/ \E ok \in BOOLEAN : Open(t, ok)
    \/ LoopTest(t)
    \/ \E fail \in fails : Drain(t, fail)
    \/ \E response \in PollResponses : HsPoll(t, response)
    \/ \E response \in responses : \E dt \in steps : Read(t, response, dt)
    \/ Close(t)

Sampler(responses, steps, fails) ==
    \E t \in Sessions : SamplerStep(t, responses, steps, fails)

Next ==
    \/ Sampler(EngineResponses, {1}, EngineFails)
    \/ go_to_dmm_setup
    \/ (page = "setup" /\ ~setup_dialog /\ \E cfg \in EngineConfigs : go_to_mode_selection(cfg))
    \/ PutNext
    \/ check_dmm_ready
    \/ go_to_value_display
    \/ switch_display_mode
    \/ send_trigger
    \/ TickLen
    \/ \E abort \in BOOLEAN : TickSlice(abort)
    \/ reset_application
    \/ JoinReset
    \/ closeEvent
    \/ JoinClose

Spec == Init /\ [][Next]_vars

\* The graph page in jig mode: one session of the four-terminal resistance
\* mode, whose derived value is |A / B| and is invalid for A = 0.
LineZero == <<"D", "C", "V", "_", " ", "0", ",", "D", "C", "I", "_", " ", "5">>
GraphResponses == {LineAB, LineZero}
GraphConfigs == {Config(TRUE, "4T_A_V", TRUE, TRS0)}

NextGraph ==
    \/ Sampler(GraphResponses, {1}, {0})
    \/ go_to_dmm_setup
    \/ (page = "setup" /\ session = 0 /\ \E cfg \in GraphConfigs : go_to_mode_selection(cfg))
    \/ PutNext
    \/ check_dmm_ready
    \/ switch_display_mode
    \/ (Len(gp.time_data) + Len(data_list) <= MaxWindow
          /\ \E abort \in BOOLEAN : go_to_graph_display(abort))
    \/ recording_button
    \/ reset_graph_button
    \/ TickLen
    \/ \E abort \in BOOLEAN : TickSlice(abort)
    \/ closeEvent
    \/ JoinClose

GraphSpec == Init /\ [][NextGraph]_vars

\* The control surface called in any order: start_measurement through
\* go_to_mode_selection from any page, stop_measurement, reset_application and
\* closeEvent, with the setup dialog closed by the user or by the ready flag.
NextApi ==
    \/ Sampler(EngineResponses, {1}, EngineFails)
    \/ \E cfg \in EngineConfigs : go_to_mode_selection(cfg)
    \/ JoinStart
    \/ PutNext
    \/ check_dmm_ready
    \/ dismiss_setup_dialog
    \/ stop_measurement
    \/ JoinStop
    \/ reset_application
    \/ JoinReset
    \/ closeEvent
    \/ JoinClose

SpecApi == Init /\ [][NextApi]_vars

\* The control surface with the setup dialog left to the ready flag
NextFair ==
    \/ Sampler(EngineResponses, {1}, EngineFails)
    \/ \E cfg \in EngineConfigs : go_to_mode_selection(cfg)
    \/ JoinStart
    \/ PutNext
    \/ check_dmm_ready
    \/ stop_measurement
    \/ JoinStop
    \/ reset_application
    \/ JoinReset
    \/ closeEvent
    \/ JoinClose

\* The same, with a sampler thread that keeps being scheduled: a started
\* thread that can take a step eventually takes one. What the instrument
\* answers stays free.
FairApi ==
    /\ Init /\ [][NextFair]_vars
    /\ \A t \in Sessions : WF_vars(SamplerStep(t, EngineResponses, {1}, EngineFails))

(***************************************************************************)
(* Properties of the engine                                                *)
(***************************************************************************)

\* C1: the batch of a tick is the log from the old cursor to the end of the
\* log, and the new cursor is the length the log had when the batch was
\* taken, so that no entry is skipped and none is delivered twice.
C1_CursorAtBatchEnd ==
    /\ batch.to = batch.from + Len(batch.slice)
    /\ batch.to <= Len(data_list)
    /\ batch.slice = SubSeq(data_list, batch.from + 1, batch.to)

\* C2: the sampler takes the commands in the order they were enqueued, each
\* exactly once: what was dequeued, followed by what still waits, is what
\* was enqueued.
C2_Fifo == enq = deq \o command_queue

C2_Witness ==
    /\ Len(deq) >= 4
    /\ \E i \in 1..Len(deq) : deq[i] = TRIGGER
    /\ command_queue # <<>>

HasConfigure(q) == \E i \in 1..Len(q) : StartsWith(q[i], SEND_)

\* C3: when a sample is appended, no Configure command enqueued before its
\* read is still waiting: each has had its handshake completed or failed.
C3_ConfigureBeforeRead ==
    [][Len(data_list') > Len(data_list) => ~HasConfigure(command_queue)]_vars

IsProperPrefix(s, full) == Len(s) < Len(full) /\ s = SubSeq(full, 1, Len(s))

Handshake(t, text) ==
    /\ command'[t] = text
    /\ \/ pc'[t] = "hs_poll" /\ wire'[t] = HsOps(text)
       \/ pc'[t] = "drain" /\ IsProperPrefix(wire'[t], HsOps(text))

\* C4 as stated: a TRIGGER gives one transport write, the trigger
\* instruction, with no clear-status write, no completion query and no
\* completion wait.
C4_TriggerSingleWrite ==
    \A t \in Sessions : command[t] = TRG => (wire[t] = <<TRG>> /\ pc[t] # "hs_poll")

\* C4 amended: every dequeued command is dispatched by its kind: a Configure
\* command runs the handshake with its text, a TRIGGER runs the same
\* handshake with the trigger instruction (clear-status, clear, *TRG, the
\* completion query, then the completion wait), and STOP sets the
\* termination flag and writes nothing.
C4_DispatchHandshake ==
    [][\A t \in Sessions :
          (pc[t] = "drain" /\ deq' # deq) =>
              LET c == deq'[Len(deq')]
              IN  /\ c = TRIGGER => Handshake(t, TRG)
                  /\ StartsWith(c, SEND_) => Handshake(t, SliceFrom(c, 5))
                  /\ c = STOP => (stop_event' /\ wire'[t] = <<>> /\ pc'[t] = "drain")]_vars

C4_Witness ==
    /\ \E i, j, k \in 1..Len(deq) :
          /\ i < j /\ j < k
          /\ deq[i] = SEND_ \o DSP1_F3 /\ deq[j] = TRIGGER /\ deq[k] = STOP
    /\ pc[1] = "done"

\* C5 as stated: once the sampler has dequeued STOP, no sample is appended.
C5_NoAppendAfterStop == \A t \in Sessions : after_stop[t] <= 0

\* C5 amended: once the sampler has dequeued STOP it appends at most one more
\* sample, the one read in the loop turn that dequeued STOP.
C5_OneAppendAfterStop == \A t \in Sessions : after_stop[t] <= 1

C5_Witness == \E t \in Sessions : after_stop[t] = 1 /\ pc[t] = "done"

\* C8: the log is append-only: every step keeps the entries it had, in
\* place, and only adds at the end.
C8_LogAppendOnly ==
    [][/\ Len(data_list') >= Len(data_list)
       /\ SubSeq(data_list', 1, Len(data_list)) = data_list]_vars

C8_Witness ==
    /\ session = 2 /\ Len(data_list) = 2
    /\ batch.to >= 1
    /\ pc[2] = "loop"
    /\ data_list[2][1] < data_list[1][1]

\* C9: every entry of the log has a channel-A value, a number or the
\* overload mark: a loop turn whose response gives none appends nothing.
C9_LogHasChannelA ==
    \A i \in 1..Len(data_list) : data_list[i][2].k \in {"num", "negzero", "nan", "inf", "str"}

C9_Witness ==
    /\ session = 1 /\ start_time[1] = 0 /\ now = 2
    /\ Len(data_list) = 1
    /\ pc[1] = "loop"

(***************************************************************************)
(* Properties of the control surface                                       *)
(***************************************************************************)

Holders == {t \in Sessions : dmm[t] = "open"}

\* C6: at most one sampler holds the transport, and a sampler opens it only
\* when every other sampler has ended and closed it: a start made while a
\* sampler is alive stops that sampler first.
C6_SingleHolder ==
    [][/\ Cardinality(Holders') <= 1
       /\ \A t \in Sessions :
             (dmm[t] # "open" /\ dmm'[t] = "open") =>
                 \A u \in Sessions \ {t} : ~is_alive(u) /\ dmm[u] # "open"]_vars

C6_Witness ==
    /\ gui_pc = "join_start" /\ to_put # <<>>
    /\ pc[1] = "done" /\ dmm[1] = "closed"
    /\ after_stop[1] >= 0

Joins == {"join_start", "join_stop", "join_reset", "join_close"}
Polling == \E t \in Sessions : pc[t] = "hs_poll"

\* join() returns only when the thread has ended, the transport closed.
BlockedUntilClosed ==
    [][(gui_pc \in Joins /\ gui_pc' \notin Joins) =>
          /\ pc[measurement_process] = "done"
          /\ dmm[measurement_process] # "open"]_vars

\* C7 as stated: when STOP is enqueued for a running sampler the sampler
\* eventually leaves its loop and closes the transport, and the requester
\* stays blocked until then.
C7_StopLeadsToClose ==
    /\ (gui_pc \in Joins) ~> ~ProcessAlive
    /\ BlockedUntilClosed

\* C7 amended: the same, unless the sampler stays for ever in the completion
\* wait of a handshake the instrument never answers.
C7_StopLeadsToCloseUnlessPolling ==
    /\ <>[]Polling \/ ((gui_pc \in Joins) ~> ~ProcessAlive)
    /\ BlockedUntilClosed

C7_Witness ==
    /\ gui_pc = "join_reset"
    /\ pc[1] = "done" /\ dmm[1] = "closed"
    /\ \E i \in 1..Len(deq) : deq[i] = STOP

(***************************************************************************)
(* Properties of the graph page                                            *)
(***************************************************************************)

\* s is full with some entries left out
RECURSIVE IsSubseq(_, _)
IsSubseq(s, full) ==
    IF s = <<>> THEN TRUE
    ELSE IF full = <<>> THEN FALSE
    ELSE IF Head(s) = Head(full) THEN IsSubseq(Tail(s), Tail(full))
    ELSE IsSubseq(s, Tail(full))

\* the entries of a batch whose derived value is not Invalid
Accepted(samples, name) ==
    Ordered({i \in 1..Len(samples) :
                LET c == CalculatedTick(name, samples[i][2], samples[i][3])
                IN  ~IsFault(c) /\ ~isinf(c)}, Len(samples))

\* C10: in jig mode a tick on the graph page puts into the window only
\* timestamps and values of the batch's entries whose derived value is not
\* Invalid, records no Invalid row, and moves the cursor on.
C10_InvalidExcluded ==
    [][(gui_pc = "tick" /\ gui_pc' # "tick" /\ page = "graph" /\ jig_mode) =>
          LET samples == DataSlice(data_list, last_read_index)
              ok == Accepted(samples, jig_mode_name)
              times == [j \in 1..Len(ok) |-> samples[ok[j]][1]]
              values == [j \in 1..Len(ok) |->
                            CalculatedTick(jig_mode_name, samples[ok[j]][2],
                                           samples[ok[j]][3])]
          IN  /\ last_read_index' > last_read_index
              /\ IsSubseq(gp'.time_data, gp.time_data \o times)
              /\ IsSubseq(gp'.calculated_data, gp.calculated_data \o values)
              /\ \A i \in 1..Len(gp'.recorded_data) :
                    ~isinf(gp'.recorded_data[i][2])]_vars

\* ------------------------------------------- the graph page, batch by batch
\* entries fed to the page in one behaviour, and presses of the record button
MaxFeed == 3
MaxPresses == 3

appVars == <<gui_pc, page, to_put, setup_dialog, setup_timer, timer, jig_mode,
             jig_mode_name, trigger_mode, measurement_mode_bch, measurement_process,
             session, stop_event, is_ready_event, last_read_index, new_data_count,
             command_queue, data_list, pc, dmm, command, start_time, now, enq, deq,
             wire, after_stop, batch, fault, triggers, retries>>

\* the texts typed into time_input
WindowSpans == {<<"1">>, <<"1", "0">>}

\* set_measurement_mode_descriptions: plain with and without a second channel,
\* and the jig mode 4T_A_V
WindowModes == {[jig_mode |-> FALSE, bch_desc |-> FALSE],
                [jig_mode |-> FALSE, bch_desc |-> TRUE],
                [jig_mode |-> TRUE, bch_desc |-> TRUE]}
WindowJigName == "4T_A_V"

\* Samples of the log from timestamp "from" on; channel A = 0 is Invalid in
\* jig mode
WindowSamples(from) ==
    {<<t, a, Num(2)>> : t \in from..MaxTime, a \in {Num(10), Num(0)}}

\* data_slice: one or two Samples, timestamps not decreasing
WindowBatches(from) ==
    {<<s>> : s \in WindowSamples(from)}
      \cup UNION {{<<s, u>> : u \in WindowSamples(s[1])} : s \in WindowSamples(from)}

\* the Samples among the inputs so far, and the presses
Fed(events) == SelectSeq(events, LAMBDA e : Len(e) = 3)
Presses(events) == SelectSeq(events, LAMBDA e : Len(e) = 1)

NoOutcome == [fault |-> "none", box |-> "none", file |-> <<>>]

\* the header row save_recorded_data writes
Header(g) ==
    IF g.jig_mode THEN <<"time", "calculated">>
    ELSE IF g.bch_desc THEN <<"time", "ach", "bch">>
    ELSE <<"time", "ach">>

NothingToSaveNever(rows) == FALSE

\* "if not self.recorded_data"
NothingToSave(rows) == rows = <<>>

\* save_recorded_data(): the message box it shows and the rows of the file it
\* writes (none when it writes no file). file_path is FALSE when the file
\* dialog is cancelled, writes is FALSE when open() raises.
save_recorded_data(g, file_path, writes) ==
    IF NothingToSave(g.recorded_data)
    THEN [fault |-> "none", box |-> "information: no data", file |-> <<>>]
    ELSE IF ~file_path THEN NoOutcome
    ELSE IF ~writes THEN [fault |-> "none", box |-> "critical", file |-> <<>>]
    ELSE [fault |-> "none", box |-> "information: saved",
          file |-> <<Header(g)>> \o g.recorded_data]

InitWindow ==
    /\ InitApp
    /\ \E span \in WindowSpans, mode \in WindowModes :
          gp = [GraphDisplayPage EXCEPT !.time_input = span,
                                        !.jig_mode = mode.jig_mode,
                                        !.bch_desc = mode.bch_desc]
    /\ arg = <<>>
    /\ result = NoOutcome

\* update_from_shared_memory on the graph page, for one data_slice
WindowFeed ==
    /\ \E samples \in WindowBatches(IF Fed(arg) = <<>> THEN 0 ELSE Last(Fed(arg))[1]) :
          /\ Len(Fed(arg)) + Len(samples) <= MaxFeed
          /\ LET l == Lists(samples, gp.jig_mode, WindowJigName, gp.bch_desc, TRUE)
                 r == IF l.fault # "none" THEN [gp |-> gp, fault |-> l.fault]
                      ELSE FeedGraph(gp, l, gp.jig_mode)
             IN  /\ gp' = r.gp
                 /\ result' = [NoOutcome EXCEPT !.fault = r.fault]
          /\ arg' = arg \o samples
    /\ UNCHANGED appVars

\* the record button: toggle_recording() with the save_recorded_data() it calls
WindowRecord ==
    /\ Len(Presses(arg)) < MaxPresses
    /\ \E file_path \in BOOLEAN, writes \in BOOLEAN :
          /\ gp' = toggle_recording(gp)
          /\ result' = IF gp.recording
                       THEN save_recorded_data(toggle_recording(gp), file_path, writes)
                       ELSE NoOutcome
    /\ arg' = Append(arg, <<"record">>)
    /\ UNCHANGED appVars

NextWindow ==
    \/ WindowFeed
    \/ WindowRecord

WindowSpec == InitWindow /\ [][NextWindow]_vars

\* the entries of a run of Samples the page accepts: in jig mode those whose
\* derived value is not Invalid
AcceptedFed(samples, g) ==
    IF g.jig_mode THEN Sub(samples, Accepted(samples, WindowJigName)) ELSE samples

\* the entries with timestamp in [latest - S, latest]
InSpan(entries, S) ==
    IF entries = <<>> THEN <<>>
    ELSE LET latest == Last(entries)[1]
         IN  SelectSeq(entries, LAMBDA e : latest - S <= e[1] /\ e[1] <= latest)

\* the page's buffers hold exactly these entries
WindowHolds(g, entries) ==
    /\ g.time_data = [i \in 1..Len(entries) |-> entries[i][1]]
    /\ IF g.jig_mode
       THEN g.calculated_data =
               [i \in 1..Len(entries) |->
                   CalculatedTick(WindowJigName, entries[i][2], entries[i][3])]
       ELSE /\ g.ach_data = [i \in 1..Len(entries) |-> entries[i][2]]
            /\ g.bch_desc => g.bch_data = [i \in 1..Len(entries) |-> entries[i][3]]

\* C11: for a span S > 0, after every batch the window holds exactly the
\* accepted entries fed so far whose timestamp lies in [latest - S, latest].
C11_WindowIsFilter ==
    LET S == max_display_time(gp.time_input)
    IN  S > 0 => WindowHolds(gp, InSpan(AcceptedFed(Fed(arg), gp), S))

\* the window's entries, timestamp with value, as far as both buffers go
WindowEntries(g) ==
    LET values == IF g.jig_mode THEN g.calculated_data ELSE g.ach_data
    IN  [i \in 1..Min2(Len(g.time_data), Len(values)) |-> <<g.time_data[i], values[i]>>]

\* the same of the Log's accepted entries
LogEntries(samples, jig, name) ==
    LET kept == IF jig THEN Sub(samples, Accepted(samples, name)) ELSE samples
    IN  [i \in 1..Len(kept) |->
            <<kept[i][1], IF jig THEN CalculatedTick(name, kept[i][2], kept[i][3])
                          ELSE kept[i][2]>>]

\* C12: after any ticks, entering and leaving of the graph display and resets,
\* the window's entries are entries of the Log, each at most once and in Log
\* order: the timestamps and the timestamp-value pairs of the window are
\* subsequences of those of the Log's accepted entries. Stated for a Log
\* without Invalid entries.
C12_WindowOnceInLogOrder ==
    Len(Accepted(data_list, jig_mode_name)) = Len(data_list) =>
        LET entries == LogEntries(data_list, jig_mode, jig_mode_name)
        IN  /\ IsSubseq(gp.time_data, [i \in 1..Len(entries) |-> entries[i][1]])
            /\ IsSubseq(WindowEntries(gp), entries)

\* the inputs after the last press of the record button
RECURSIVE SincePress(_)
SincePress(events) ==
    IF events = <<>> THEN <<>>
    ELSE IF Len(Last(events)) = 1 THEN <<>>
    ELSE Append(SincePress(SubSeq(events, 1, Len(events) - 1)), Last(events))

\* the row of one accepted entry
RowOf(e, g) ==
    IF g.jig_mode THEN <<e[1], CalculatedTick(WindowJigName, e[2], e[3])>>
    ELSE IF g.bch_desc THEN <<e[1], e[2], e[3]>>
    ELSE <<e[1], e[2]>>

\* C13: while recording, the RecordingBuffer holds exactly one row for every
\* accepted entry consumed since recording started, verbatim and in order,
\* whatever the span and whether or not the window evicts.
C13_RecordsEveryAccepted ==
    gp.recording =>
        LET entries == AcceptedFed(SincePress(arg), gp)
        IN  gp.recorded_data = [i \in 1..Len(entries) |-> RowOf(entries[i], gp)]

\* a step that is a press of the record button
Pressed == arg' = Append(arg, <<"record">>)

C15_EmptyStopWritesNothing ==
    [][(Pressed /\ gp.recording /\ gp.recorded_data = <<>>) =>
          /\ result'.file = <<>>
          /\ result'.box = "information: no data"
          /\ gp' = [gp EXCEPT !.recording = FALSE]]_vars

\* a capture without rows has been stopped
C15_Witness ==
    /\ ~gp.recording
    /\ gp.recorded_data = <<>>
    /\ result.box = "information: no data"

\* C16: a Sampler whose open fails ends at once: the failing step changes
\* nothing but the thread's position, the thread never moves again, its ready
\* flag stays unset, and whatever appends to the Log, takes a command from the
\* queue or uses the transport is a thread whose transport is open.
C16_FailedOpenDoesNothing ==
    [][/\ \A t \in Sessions :
             /\ dmm'[t] = "none" => pc'[t] \in {"idle", "open", "done"}
             /\ (pc[t] = "open" /\ pc'[t] # "open" /\ dmm'[t] = "none") =>
                    /\ pc'[t] = "done"
                    /\ UNCHANGED <<data_list, is_ready_event, command_queue, deq,
                                   wire, command, stop_event>>
             /\ (pc[t] = "done" /\ dmm[t] = "none") =>
                    /\ pc'[t] = "done" /\ dmm'[t] = "none"
                    /\ ~is_ready_event'[t]
                    /\ wire'[t] = <<>> /\ command'[t] = <<>>
       /\ (data_list' # data_list \/ deq' # deq \/ wire' # wire) =>
             \E t \in Sessions : dmm[t] = "open" /\ is_alive(t)]_vars

\* a thread has ended on a failed open
C16_Witness == \E t \in Sessions : pc[t] = "done" /\ dmm[t] = "none"

\* C17: within a session the ready flag is unset before the Sampler has
\* appended anything, is set by the step that appends, first append included,
\* and is never unset: the flag of a thread changes only in a step of that
\* thread that appends a Sample, and only to set.
C17_ReadyWithFirstAppend ==
    [][\A t \in Sessions :
          /\ pc'[t] \in {"idle", "open"} => ~is_ready_event'[t]
          /\ is_ready_event'[t] # is_ready_event[t] =>
                /\ is_ready_event'[t]
                /\ pc[t] = "read" /\ pc'[t] = "loop"
                /\ Len(data_list') = Len(data_list) + 1
          /\ (pc[t] = "read" /\ pc'[t] = "loop" /\ data_list' # data_list) =>
                is_ready_event'[t]]_vars

\* the second session's flag is set, its Sampler having appended
C17_Witness ==
    /\ session = 2 /\ is_ready_event[2] /\ pc[2] = "loop"
    /\ Len(data_list) = 2

\* ------------------------------------------------------ the completion poll
\* reads the transport answers in one behaviour
MaxPolls == 3

Token1Padded == <<" ", "1", " ">>

\* what the reads of one poll deliver, in order
PollScripts ==
    UNION {[1..n -> PollResponses \cup {Token1Padded}] : n \in 1..MaxPolls}

InitPoll ==
    /\ InitApp
    /\ gp = GraphDisplayPage
    /\ arg \in PollScripts
    /\ result = [reads |-> 0, delays |-> 0, state |-> "polling", printed |-> FALSE]

\* send_command(): one dmm.read() of the poll loop and what follows it
PollRead ==
    /\ result.state = "polling" /\ result.reads < Len(arg)
    /\ LET response == arg[result.reads + 1]
           outcome == PollOutcome(response)
       IN  result' = [reads |-> result.reads + 1,
                      delays |-> result.delays + (IF PollDelay(response) THEN 1 ELSE 0),
                      state |-> CASE outcome = "done" -> "done"
                                  [] outcome = "abort" -> "aborted"
                                  [] OTHER -> "polling",
                      printed |-> outcome = "abort"]
    /\ UNCHANGED <<appVars, gp, arg>>

NextPoll == PollRead

PollSpec == InitPoll /\ [][NextPoll]_vars

\* C18: in the completion poll a read timeout is retried after a delay, the
\* token "1" ends the handshake, and every other error of the transport ends
\* the command at once and is reported.
C18_OnlyTimeoutsRetried ==
    [][result'.reads = result.reads + 1 =>
          LET response == arg[result.reads + 1]
          IN  /\ response = VisaTimeout =>
                    result'.state = "polling" /\ result'.delays = result.delays + 1
              /\ response \in {Token1, Token1Padded} => result'.state = "done"
              /\ response \in {VisaFault, OtherError} =>
                    result'.state = "aborted" /\ result'.printed]_vars

\* C19: once the transport is open, the Sampler leaves its loop only at the
\* loop test, with the termination flag set and STOP taken from the queue by
\* this thread, and ends only through the close that follows; whatever the
\* read or the handshake did, a read is followed by the loop test, the loop
\* test with the flag unset by the drain, and the drain by the read.
C19_OnlyStopEndsLoop ==
    [][\A t \in Sessions :
          /\ (pc'[t] = "close" /\ pc[t] # "close") =>
                pc[t] = "loop" /\ stop_event /\ after_stop[t] >= 0
          /\ (pc'[t] = "done" /\ pc[t] # "done" /\ dmm[t] = "open") => pc[t] = "close"
          /\ (pc[t] = "read" /\ pc'[t] # "read") => pc'[t] = "loop"
          /\ (pc[t] = "loop" /\ pc'[t] # "loop" /\ ~stop_event) => pc'[t] = "drain"
          /\ (pc[t] = "drain" /\ pc'[t] # "drain") => pc'[t] \in {"hs_poll", "read"}
          /\ (pc[t] = "hs_poll" /\ pc'[t] # "hs_poll") => pc'[t] = "drain"]_vars

\* a handshake has failed half-way and the thread is at its next read
C19_Witness ==
    \E t \in Sessions :
        /\ pc[t] = "read" /\ ~stop_event
        /\ wire[t] # <<>> /\ Len(wire[t]) < Len(HsOps(command[t]))

\* ------------------------------------------------------- the response line
\* parts of one response line
MaxParts == 3

\* the parts a line is made of: empty, one token, an unknown prefix, a
\* reading, a number that is none, an overload, a padded reading, minus zero
LineParts ==
    {<<>>,
     <<"X">>,
     <<"E", "R", "R", " ", "5">>,
     <<"D", "C", "V", "_", " ", "1", "0">>,
     <<"D", "C", "V", "_", " ", "x">>,
     <<"D", "C", "V", "O", " ", "9">>,
     <<" ", "D", "C", "I", "_", " ", "2", " ">>,
     <<"D", "C", "V", "_", " ", "-", "0", ".", "0">>}

\* ",".join(parts)
RECURSIVE Join(_)
Join(parts) ==
    IF Len(parts) = 1 THEN parts[1]
    ELSE parts[1] \o <<",">> \o Join(Tail(parts))

ParseLines == {Join(parts) : parts \in UNION {[1..n -> LineParts] : n \in 1..MaxParts}}

InitParse ==
    /\ InitApp
    /\ gp = GraphDisplayPage
    /\ arg \in ParseLines
    /\ result = <<>>

\* read_measurement() on the line dmm.read() has delivered
Parse ==
    /\ result = <<>>
    /\ result' = read_measurement(arg)
    /\ UNCHANGED <<appVars, gp, arg>>

NextParse == Parse

ParseSpec == InitParse /\ [][NextParse]_vars

\* a channel value read_measurement hands out: a float or 'Overload'
IsReading(value) == IsFloat(value) \/ value = Overload

\* C20: for every response line read_measurement returns a pair that is
\* <<None, None>> (no channel A), or a channel A reading with channel B
\* absent, or a reading for both channels; no exception comes out of it.
C20_ParseTotal ==
    result # <<>> =>
        \/ result = <<None, None>>
        \/ IsReading(result[1]) /\ result[2] = None
        \/ IsReading(result[1]) /\ IsReading(result[2])

\* a line of three readings has been parsed into both channels
C20_Witness ==
    /\ Len(SplitOn(arg, ",")) = 3
    /\ \A i \in 1..3 : PartValue(SplitOn(arg, ",")[i]) # None
    /\ result # <<>> /\ IsReading(result[1]) /\ IsReading(result[2])

\* the reading each kind of part stands for, None where it is no recognized
\* reading: written down from the instrument's format, not from the parser
ExpectedReading(part) ==
    CASE part = <<"D", "C", "V", "_", " ", "1", "0">> -> Num(10)
      [] part = <<"D", "C", "I", "_", " ", "2">> -> Num(2)
      [] part = <<"D", "C", "V", "_", " ", "-", "0", ".", "0">> -> Num(0)
      [] part = <<"D", "C", "V", "O", " ", "9">> -> Overload
      [] OTHER -> None

\* the recognized readings of a line, in order
ExpectedReadings(line) ==
    LET parts == SplitOn(line, ",")
        all == [i \in 1..Len(parts) |-> ExpectedReading(Strip(parts[i]))]
    IN  SelectSeq(all, LAMBDA v : v # None)

\* C21: the first recognized reading of the line is channel A, the second is
\* channel B, further ones are ignored; a part whose number does not parse
\* or whose prefix is unknown takes no slot; an overload part gives Overload;
\* channel B is None when one reading is recognized.
C21_FirstTwoReadings ==
    result # <<>> =>
        LET r == ExpectedReadings(arg)
        IN  /\ result[1] = (IF Len(r) >= 1 THEN r[1] ELSE None)
            /\ result[2] = (IF Len(r) >= 2 THEN r[2] ELSE None)

\* an unparseable part came first, then an overload and a reading
C21_Witness ==
    /\ Len(SplitOn(arg, ",")) >= 3
    /\ Strip(SplitOn(arg, ",")[1]) = <<"D", "C", "V", "_", " ", "x">>
    /\ Len(ExpectedReadings(arg)) >= 2
    /\ result # <<>> /\ result[1] = Overload /\ result[2] # None

\* ------------------------------------------------------------ the reduction
\* what the two channels of a Sample of the Log can hold: channel A is never
\* None, and read_measurement turns minus zero into zero
ReduceA == {Num(10), Num(0), Num(-5), NaN, Inf, NegInf, Overload}
ReduceB == {Num(2), Num(5), Num(0), NaN, Inf, Overload, None}

\* one Sample, the jig mode's name, the graph page recording or not
InitReduce ==
    /\ InitApp
    /\ \E rec \in BOOLEAN :
          gp = [GraphDisplayPage EXCEPT !.jig_mode = TRUE, !.bch_desc = TRUE,
                                        !.recording = rec]
    /\ arg \in {[name |-> name, sample |-> <<0, a, b>>] :
                    name \in JigNames \cup {"None"}, a \in ReduceA, b \in ReduceB}
    /\ result = <<>>

\* the reduction of arg.sample and the call of update_graph with its outcome
Reduced(catches) ==
    LET l == Lists(<<arg.sample>>, TRUE, arg.name, TRUE, catches)
        r == IF l.fault # "none" THEN [gp |-> gp, fault |-> l.fault]
             ELSE FeedGraph(gp, l, TRUE)
    IN  /\ gp' = r.gp
        /\ result' = [value |-> l.calculated_values[1], fault |-> r.fault,
                      reduced |-> l.fault = "none"]

\* update_from_shared_memory on the graph page, the Sample being the slice
ReduceTick ==
    /\ result = <<>>
    /\ Reduced(TRUE)
    /\ UNCHANGED <<appVars, arg>>

\* load_data_from_list, the Sample being the Log
ReduceLoad ==
    /\ result = <<>>
    /\ Reduced(FALSE)
    /\ UNCHANGED <<appVars, arg>>

NextReduce ==
    \/ ReduceTick
    \/ ReduceLoad

ReduceSpec == InitReduce /\ [][NextReduce]_vars

\* a channel value that is a finite number
Finite(x) == x.k \in {"num", "negzero"}

\* Invalid is float('inf')
Invalid == Inf

\* x and y are the same reduction outcome: equal numbers (minus zero equals
\* zero), or both infinite (every display tests Invalid with math.isinf)
SameValue(x, y) ==
    IF Finite(x) /\ Finite(y) THEN x.n * y.d = y.n * x.d
    ELSE IF isinf(x) /\ isinf(y) THEN TRUE
    ELSE x = y

\* C22: in a Ratio jig mode the reduction is Invalid when channel A is 0 or
\* either channel is NaN, infinite or Overload, and abs(A / B) otherwise
\* (stated for a channel B that is present and not 0).
C22_RatioReduction ==
    (result # <<>> /\ arg.name \in {"4T_A_V", "4T_B_V"}) =>
        LET a == arg.sample[2]
            b == arg.sample[3]
        IN  (b # None /\ ~(Finite(b) /\ IsZero(b))) =>
                SameValue(result.value,
                          IF ~Finite(a) \/ ~Finite(b) \/ IsZero(a) THEN Invalid
                          ELSE Rat(Abs(a.n * b.d), Abs(a.d * b.n)))

\* C23: in a Product jig mode the reduction is Invalid when either channel is
\* NaN, infinite or Overload, and A * B otherwise (stated for a channel B
\* that is present); no NaN and no infinite value is in the window or among
\* the recorded rows.
C23_ProductReduction ==
    (result # <<>> /\ arg.name \in {"PowerSmall", "PowerLarge"}) =>
        LET a == arg.sample[2]
            b == arg.sample[3]
        IN  /\ b # None =>
                  SameValue(result.value,
                            IF ~Finite(a) \/ ~Finite(b) THEN Invalid
                            ELSE Rat(a.n * b.n, a.d * b.d))
            /\ \A i \in 1..Len(gp.calculated_data) : Finite(gp.calculated_data[i])
            /\ \A i \in 1..Len(gp.recorded_data) : Finite(gp.recorded_data[i][2])

\* C24: for every Sample and every jig mode the reduction ends with a number
\* or Invalid and raises nothing.
C24_ReductionTotal ==
    result # <<>> =>
        /\ result.reduced
        /\ Finite(result.value) \/ SameValue(result.value, Invalid)

\* ------------------------------------------------------ the setup handler
MaxReports == 2    \* error boxes shown in one run

F1 == <<"F", "1">>
F5 == <<"F", "5">>
F12 == <<"F", "1", "2">>
F35 == <<"F", "3", "5">>
F40 == <<"F", "4", "0">>
F50 == <<"F", "5", "0">>

\* the keys of range_dict
RangeKeys ==
    {F1, <<"F", "2">>, <<"F", "3">>, F5, <<"F", "6">>, <<"F", "7">>, <<"F", "8">>,
     F12, <<"F", "1", "3">>, <<"F", "2", "0">>, <<"F", "2", "2">>, F35,
     <<"F", "3", "6">>, <<"F", "3", "7">>}

\* DMMApp's jig_modes: (name, DSP1 key, DSP2 key)
JigModes ==
    << <<"4T_A_V", F1, F35>>, <<"4T_B_V", F12, F5>>, <<"hFE", F5, F35>>,
       <<"PowerSmall", F5, F12>>, <<"PowerLarge", F1, F35>> >>

\* jig_modes tables DMMSetupPage can be constructed with: the application's,
\* one with two more modes on measurement options that have no range table
\* (F40 temperature, F50 frequency), and the empty one
JigTables ==
    {JigModes,
     <<JigModes[1], <<"Temp", F40, F35>>, <<"Freq", F1, F50>>>>,
     <<>>}

\* the texts of jig_selection_combo ("" for the empty combo box)
ComboTexts(jig_modes) ==
    IF jig_modes = <<>> THEN {""} ELSE {jig_modes[i][1] : i \in 1..Len(jig_modes)}

\* The setup page when its button is pressed: mode_group.checkedId(),
\* dsp1_option_group.checkedId() (-1: no button checked),
\* jig_selection_combo.currentText(), the jig_modes table
SetupPages ==
    {[mode_id |-> m, dsp1_idx |-> i, jig_mode_name |-> n, jig_modes |-> t] :
        m \in {0, 1}, i \in {-1, 0}, n \in {"", "4T_A_V", "Temp", "Freq"},
        t \in JigTables}

\* the loop of lines 632-636: the keys of the first entry named name
\* (None, None when there is none)
JigKeys(jig_modes, name) ==
    LET hits == {i \in 1..Len(jig_modes) : jig_modes[i][1] = name}
    IN  IF hits = {} THEN <<<<>>, <<>>>>
        ELSE LET i == CHOOSE i \in hits : \A j \in hits : i <= j
             IN  <<jig_modes[i][2], jig_modes[i][3]>>

\* what go_to_mode_selection reads from a setup page whose commands are
\* not empty
SetupConfig(p) ==
    IF p.mode_id = 0 THEN Config(FALSE, "None", FALSE, TRS0)
    ELSE Config(TRUE, p.jig_mode_name, TRUE, TRS0)

\* get_setup_commands with its three error branches left out of their
\* "return []"
SetupCommandsNoReturn(p) ==
    [commands |-> get_setup_commands(SetupConfig(p)),
     box |-> IF p.mode_id = 0 /\ p.dsp1_idx = -1 THEN "DSP1 not selected"
             ELSE "none"]

\* get_setup_commands(): the commands and the QMessageBox.critical it shows
SetupCommands(p) ==
    IF p.mode_id = 0
    THEN IF p.dsp1_idx = -1
         THEN [commands |-> <<>>, box |-> "DSP1 not selected"]
         ELSE [commands |-> get_setup_commands(SetupConfig(p)), box |-> "none"]
    ELSE LET keys == JigKeys(p.jig_modes, p.jig_mode_name)
         IN  IF ~(keys[1] # <<>> /\ keys[1] \in RangeKeys)
             THEN [commands |-> <<>>, box |-> "DSP1 setting"]
             ELSE IF ~(keys[2] # <<>> /\ keys[2] \in RangeKeys)
             THEN [commands |-> <<>>, box |-> "DSP2 setting"]
             ELSE [commands |-> get_setup_commands(SetupConfig(p)), box |-> "none"]

InitSetup ==
    /\ InitApp
    /\ gp = GraphDisplayPage
    /\ arg \in {p \in SetupPages : p.jig_mode_name \in ComboTexts(p.jig_modes)}
    /\ result = <<>>

\* the user picks the other mode or another entry of the combo box
SetupEdit ==
    /\ GuiIdle
    /\ \E m \in {0, 1} : \E n \in ComboTexts(arg.jig_modes) :
          /\ n \in {"", "4T_A_V", "Temp", "Freq"}
          /\ arg' = [arg EXCEPT !.mode_id = m, !.jig_mode_name = n]
    /\ arg' # arg
    /\ UNCHANGED <<appVars, gp, result>>

\* go_to_mode_selection on the setup page arg: "if not commands: return"
\* after the error box, the start of the acquisition otherwise
SetupGo ==
    LET s == SetupCommands(arg)
    IN  IF s.commands = <<>>
        THEN /\ GuiIdle /\ Len(result) < MaxReports
             /\ result' = Append(result, s.box)
             /\ UNCHANGED <<appVars, gp, arg>>
        ELSE go_to_mode_selection(SetupConfig(arg))

\* One acquisition is started in a run; the button is pressed again on
\* pages that hold an error.
NextSetup ==
    \/ Sampler({LineAB}, {1}, {0})
    \/ SetupEdit
    \/ ((session = 0 \/ SetupCommands(arg).commands = <<>>) /\ SetupGo)
    \/ PutNext
    \/ stop_measurement
    \/ JoinStop
    \/ check_dmm_ready
    \/ dismiss_setup_dialog

SetupSpec == InitSetup /\ [][NextSetup]_vars

\* a configuration error of the setup page p: no channel-A selection, or a
\* jig mode whose channel roles are unknown or have no range table
SetupError(p) ==
    \/ p.mode_id = 0 /\ p.dsp1_idx = -1
    \/ /\ p.mode_id # 0
       /\ \/ \A i \in 1..Len(p.jig_modes) : p.jig_modes[i][1] # p.jig_mode_name
          \/ \E key \in {F40, F50} : \E i \in 1..Len(p.jig_modes) :
                /\ p.jig_modes[i][1] = p.jig_mode_name
                /\ key \in {p.jig_modes[i][2], p.jig_modes[i][3]}

\* C25: a press of the setup page's button while the page holds a
\* configuration error reports the error, creates no Sampler and enqueues no
\* command.
C25_ErrorStartsNothing ==
    [][(SetupError(arg) /\ SetupGo) =>
          /\ session' = session
          /\ measurement_process' = measurement_process
          /\ pc' = pc
          /\ command_queue' = command_queue
          /\ enq' = enq
          /\ to_put' = to_put
          /\ gui_pc' = gui_pc
          /\ Len(result') = Len(result) + 1
          /\ Last(result') # "none"]_vars

\* an error has been reported while the Sampler of an earlier start exists
C25_Witness ==
    /\ SetupError(arg)
    /\ result # <<>>
    /\ session > 0

\* --------------------------------------------------------- format_si_unit
MaxExp10 == 13       \* decimal exponents of the values formatted: -13 .. 13

\* A finite value s * m * 10^e, m a natural number (0 for zero and for
\* minus zero)
Dec(s, m, e) == [k |-> "dec", s |-> s, m |-> m, e |-> e]

\* the digits the values are made of: 1, 1.5, 2.5, 999 and 1000 times a
\* power of ten
Mantissas == {1, 15, 25, 999, 1000}

\* len(str(m)) - 1, that is floor(log10(m)) of a natural number m >= 1
RECURSIVE Log10Nat(_)
Log10Nat(m) == IF m < 10 THEN 0 ELSE 1 + Log10Nat(m \div 10)

\* int(math.floor(math.log10(abs(value)))) of a value other than zero
Log10Floor(value) == Log10Nat(value.m) + value.e

si_prefixes ==
    [exponent \in {-9, -6, -3, 0, 3, 6, 9} |->
        CASE exponent = -9 -> "n"
          [] exponent = -6 -> "u"
          [] exponent = -3 -> "m"
          [] exponent = 0 -> ""
          [] exponent = 3 -> "k"
          [] exponent = 6 -> "M"
          [] exponent = 9 -> "G"]

min_exponent == -9
max_exponent == 9

ClampNever(exponent) == exponent

\* max(min(exponent, max_exponent), min_exponent)
Clamp(exponent) ==
    LET low == IF exponent <= max_exponent THEN exponent ELSE max_exponent
    IN  IF low >= min_exponent THEN low ELSE min_exponent

\* value == 'Overload' or value is None or math.isnan(value)
IsOverload(value) == value.k \in {"str", "none", "nan"}

\* f"{scaled_value:.6g}": the value itself (the mantissas have fewer than
\* seven digits) in fixed notation, or with an exponent when its decimal
\* exponent is below -4 or at least 6
Style6g(scaled) ==
    IF scaled.m = 0 THEN "fixed"
    ELSE IF Log10Floor(scaled) < -4 \/ Log10Floor(scaled) >= 6 THEN "exponent"
    ELSE "fixed"

\* format_si_unit(value, unit): the exception raised or "none", and the
\* text returned: the literal "Overload", or the scaled value, the way it
\* is written, the prefix and the unit
format_si_unit(value, unit) ==
    IF IsOverload(value)
    THEN [fault |-> "none", text |-> "Overload"]
    ELSE IF FormatFault(value) # "none"
    THEN [fault |-> FormatFault(value), text |-> "none"]
    ELSE LET floor == IF value.m = 0 THEN 0 ELSE Log10Floor(value)
             exponent == Clamp(floor - (floor % 3))
             scaled_value == Dec(value.s, value.m, value.e - exponent)
         IN  IF exponent \notin DOMAIN si_prefixes
             THEN [fault |-> "KeyError", text |-> "none"]
             ELSE [fault |-> "none", text |-> "value", exponent |-> exponent,
                   scaled_value |-> scaled_value, style |-> Style6g(scaled_value),
                   prefix |-> si_prefixes[exponent], unit |-> unit]

\* the values format_si_unit is called with: Overload, None, NaN, the
\* infinities, and finite values of either sign
FormatValues ==
    {Overload, None, NaN, Inf, NegInf}
        \cup {Dec(s, m, e) : s \in {1, -1}, m \in Mantissas \cup {0},
                              e \in (0 - MaxExp10)..MaxExp10}

\* the units of the callers: ohm, volt, and none (hFE)
FormatUnits == {"Ohm", "V", ""}

InitFormat ==
    /\ InitApp
    /\ gp = GraphDisplayPage
    /\ arg = <<>>
    /\ result = <<>>

\* one call of format_si_unit
Format ==
    /\ \E value \in FormatValues : \E unit \in FormatUnits :
          /\ arg' = <<value, unit>>
          /\ result' = format_si_unit(value, unit)
    /\ UNCHANGED <<appVars, gp>>

NextFormat == Format

FormatSpec == InitFormat /\ [][NextFormat]_vars

\* m * 10^x < 10^k, for a natural number m >= 1
Below(m, x, k) == Log10Nat(m) + x < k

\* m * 10^x >= 10^k, for a natural number m >= 1
AtLeast(m, x, k) == Log10Nat(m) + x >= k

\* a decimal without trailing zeros in its digits
RECURSIVE Stripped(_)
Stripped(a) ==
    IF a.m = 0 THEN Dec(1, 0, 0)
    ELSE IF a.m % 10 = 0 THEN Stripped(Dec(a.s, a.m \div 10, a.e + 1))
    ELSE a

\* two decimals are the same number
SameDec(a, b) == Stripped(a) = Stripped(b)

\* C26: for every finite value format_si_unit returns with an exponent that
\* is a key of the prefix table: 0 for the value 0, otherwise the multiple of
\* 3 for which the mantissa lies in [1, 1000), or the boundary -9 or 9 for a
\* magnitude beyond the table; 1500 has prefix k and mantissa 1.5, 1e12 has
\* prefix G and mantissa 1000.
C26_ExponentIsPrefixKey ==
    (arg # <<>> /\ arg[1].k = "dec") =>
        LET v == arg[1]
            x == v.e - result.exponent
        IN  /\ result.fault = "none"
            /\ result.exponent \in DOMAIN si_prefixes
            /\ result.prefix = si_prefixes[result.exponent]
            /\ result.exponent % 3 = 0
            /\ v.m = 0 => result.exponent = 0
            /\ v.m # 0 =>
                  /\ AtLeast(v.m, x, 0) \/ result.exponent = -9
                  /\ Below(v.m, x, 3) \/ result.exponent = 9
            /\ SameDec(v, Dec(1, 15, 2)) =>
                  (result.prefix = "k" /\ SameDec(result.scaled_value, Dec(1, 15, -1)))
            /\ SameDec(v, Dec(1, 1, 12)) =>
                  (result.prefix = "G" /\ SameDec(result.scaled_value, Dec(1, 1, 3)))

\* 1e12 has been formatted
C26_Witness ==
    /\ arg # <<>>
    /\ arg[1] = Dec(1, 1, 12)
    /\ result.fault = "none"

\* C27: format_si_unit returns "Overload" for the Overload sentinel, None
\* and NaN with every unit, and raises nothing for any value.
C27_FormatTotal ==
    arg # <<>> =>
        /\ result.fault = "none"
        /\ arg[1].k \in {"str", "none", "nan"} => result.text = "Overload"

\* ------------------------------------------- commands of another producer
MaxPuts == 2       \* commands put by the other producer in one run

\* Strings that are none of the three commands: "stop", "SEND" without the
\* blank, "TRIGGER" with a blank behind it, "STOP" with a line end, and "".
OtherCommands ==
    {<<"s", "t", "o", "p">>, <<"S", "E", "N", "D">>, TRIGGER \o <<" ">>,
     STOP \o <<"\n">>, <<>>}

InitCommand ==
    /\ InitApp
    /\ gp = GraphDisplayPage
    /\ arg = <<>>
    /\ result = <<>>

\* command_queue.put(c) by a holder of the queue other than DMMApp
PutOther(c) ==
    /\ Len(arg) < MaxPuts
    /\ Put(c)
    /\ arg' = Append(arg, c)
    /\ UNCHANGED <<gui_pc, page, to_put, setup_dialog, setup_timer, timer, jig_mode,
                   jig_mode_name, trigger_mode, measurement_mode_bch,
                   measurement_process, session, last_read_index, new_data_count, gp,
                   batch, fault, triggers, stop_event, is_ready_event, data_list,
                   pc, dmm, command, start_time, now, deq, wire, after_stop, retries,
                   result>>

\* One acquisition, its commands and those of the other producer
NextCommand ==
    \/ Sampler({LineAB}, {1}, {0})
    \/ (session = 0 /\ \E cfg \in EngineConfigs : go_to_mode_selection(cfg))
    \/ PutNext
    \/ \E c \in OtherCommands : PutOther(c)
    \/ stop_measurement
    \/ JoinStop

CommandSpec == InitCommand /\ [][NextCommand]_vars

\* c is none of "STOP", "SEND <text>", "TRIGGER"
Unknown(c) == c # STOP /\ c # TRIGGER /\ ~StartsWith(c, SEND_)

\* C28: a dequeued command that is none of "SEND <text>", "TRIGGER", "STOP"
\* is consumed and nothing else happens: no transport operation, the
\* termination flag and the Log as before.
C28_UnknownIgnored ==
    [][(deq' # deq /\ Unknown(Last(deq'))) =>
          /\ command_queue # <<>>
          /\ Last(deq') = Head(command_queue)
          /\ command_queue' = Tail(command_queue)
          /\ \A t \in Sessions : wire'[t] \in {wire[t], <<>>}
          /\ \A t \in Sessions : pc'[t] = "hs_poll" => pc[t] = "hs_poll"
          /\ stop_event' = stop_event
          /\ data_list' = data_list]_vars

\* an unknown command has been dequeued between two commands of the setup
C28_Witness ==
    /\ \E i \in 1..Len(deq) : Unknown(deq[i])
    /\ deq # <<>> /\ ~Unknown(Last(deq))
    /\ data_list # <<>>

\* ------------------------------------------------ the window after a batch
\* C29: update_graph ends without an out-of-range index for every batch,
\* also for a batch that evicts entries older than the latest timestamp
\* minus the span.
C29_GraphCompletes ==
    result.fault # "IndexError"

\* C30: after every call of update_graph the window's timestamps and its
\* values (the derived values in jig mode, channel A and, when it is shown,
\* channel B otherwise) have the same length, also after a batch with an
\* Invalid derived value.
C30_WindowAligned ==
    IF gp.jig_mode
    THEN Len(gp.time_data) = Len(gp.calculated_data)
    ELSE /\ Len(gp.time_data) = Len(gp.ach_data)
         /\ gp.bch_desc => Len(gp.time_data) = Len(gp.bch_data)

\* -------------------------------------------------- sessions and the queue
\* C31: when check_dmm_ready finds the ready flag set and closes the setup
\* dialog, every command start_measurement has put for the session has been
\* executed by the Sampler: none is left in the queue and no handshake is
\* under way.
C31_ReadyAfterSetup ==
    [][(setup_dialog /\ ~setup_dialog' /\ session > 0 /\ is_ready_event[session]) =>
          (command_queue = <<>> /\ pc[session] # "hs_poll")]_vars

\* the session during which the i-th command was put: start_measurement
\* puts "SEND *RST" first, right after it has created the session's Sampler
Owner(i) == Cardinality({j \in 1..i : enq[j] = SEND_ \o RST})

\* C32: every command a Sampler takes from the queue was put during that
\* Sampler's own session; the queue is first in, first out, so the k-th
\* command taken is the k-th command put.
C32_OwnCommandsOnly ==
    [][deq' # deq =>
          \A t \in Sessions : pc[t] = "drain" => Owner(Len(deq')) = t]_vars

\* C33: once a Sampler has taken STOP from the queue, a command it takes
\* after that causes no transport operation.
C33_NothingAfterStop ==
    [][\A t \in Sessions :
          (pc[t] = "drain" /\ after_stop[t] >= 0 /\ deq' # deq) => wire'[t] = <<>>]_vars

\* ------------------------------------------------------ the recorded rows
\* C34: while recording is active the recorded rows are rows of Log entries,
\* each at most once and in Log order, also after the graph display has been
\* left and entered again. Stated for a Log without Invalid entries.
C34_RecordedOnce ==
    (gp.recording /\ Len(Accepted(data_list, jig_mode_name)) = Len(data_list)) =>
        IsSubseq(gp.recorded_data, LogEntries(data_list, jig_mode, jig_mode_name))

\* C35: in jig mode every recorded row pairs the timestamp of a Sample with
\* the value derived from that Sample, and every fed Sample with a valid
\* derived value has its row, also when its batch holds Invalid derived
\* values. Stated for a span that evicts nothing.
C35_JigRowsPaired ==
    (gp.jig_mode /\ gp.recording /\ max_display_time(gp.time_input) > MaxTime) =>
        LET entries == AcceptedFed(SincePress(arg), gp)
            rows == {gp.recorded_data[i] : i \in 1..Len(gp.recorded_data)}
        IN  /\ rows \subseteq {RowOf(entries[j], gp) : j \in 1..Len(entries)}
            /\ \A j \in 1..Len(entries) : RowOf(entries[j], gp) \in rows

\* ------------------------------------------------------ the two reductions
\* C36: load_data_from_list and update_from_shared_memory reduce a Sample to
\* the same outcome (the same number, Invalid, or the same fault) in every
\* jig mode: the outcome of whichever of the two has run is the outcome of
\* both.
C36_SameReduction ==
    result # <<>> =>
        /\ result.value = CalculatedTick(arg.name, arg.sample[2], arg.sample[3])
        /\ result.value = CalculatedLoad(arg.name, arg.sample[2], arg.sample[3])

\* C37: the timestamps of the Log are non-decreasing in index order after any
\* sequence of session starts, stops and application resets: no Sample is
\* appended behind an entry with a larger timestamp.
C37_TimestampsMonotone ==
    \A i \in 1..Len(data_list) : \A j \in i..Len(data_list) :
        data_list[i][1] <= data_list[j][1]

\* ------------------------------------------- the handshake, step by step
\* dmm.write(text), dmm.clear(), time.sleep(0.2) and dmm.read() as operations
WriteOp(text) == <<"write", text>>
ClearOp == <<"clear">>
SleepOp == <<"sleep">>
ReadOp == <<"read">>

\* send_command() that writes the command text again before the query
send_command_resends(text) ==
    <<WriteOp(CLS), ClearOp, SleepOp, WriteOp(text), SleepOp, WriteOp(text),
      WriteOp(OPC)>>

\* send_command(): its statements before the poll loop, in program order
send_command_steps(text) ==
    <<WriteOp(CLS), ClearOp, SleepOp, WriteOp(text), SleepOp, WriteOp(OPC)>>

\* command texts: "*RST", "*TRG" and a setup command
HandshakeTexts == {RST, TRG, DSP1_F3}

\* The statement at which the transport raises (0: none does); a sleep
\* raises nothing.
HandshakeFails == {0, 1, 2, 4, 6}

InitHandshake ==
    /\ InitApp
    /\ gp = GraphDisplayPage
    /\ arg \in [command : HandshakeTexts, fail : HandshakeFails, script : PollScripts]
    /\ result = [ops |-> <<>>, reads |-> 0, state |-> "sending", printed |-> FALSE]

\* send_command(): one statement before the poll; an exception of the
\* transport is caught by the outer handler, which prints and returns.
HsStep ==
    /\ result.state = "sending"
    /\ LET steps == send_command_steps(arg.command)
           k == Len(result.ops) + 1
       IN  result' = IF k = arg.fail
                     THEN [result EXCEPT !.state = "failed", !.printed = TRUE]
                     ELSE [result EXCEPT !.ops = Append(@, steps[k]),
                                         !.state = IF k = Len(steps) THEN "polling"
                                                   ELSE "sending"]
    /\ UNCHANGED <<appVars, gp, arg>>

\* send_command(): one turn of the poll loop: dmm.read(), and the sleep of
\* the VisaIOError handler.
HsRead ==
    /\ result.state = "polling" /\ result.reads < Len(arg.script)
    /\ LET response == arg.script[result.reads + 1]
           outcome == PollOutcome(response)
       IN  result' = [ops |-> result.ops \o <<ReadOp>> \o
                                 (IF PollDelay(response) THEN <<SleepOp>> ELSE <<>>),
                      reads |-> result.reads + 1,
                      state |-> CASE outcome = "done" -> "done"
                                  [] outcome = "abort" -> "failed"
                                  [] OTHER -> "polling",
                      printed |-> outcome = "abort"]
    /\ UNCHANGED <<appVars, gp, arg>>

NextHandshake == HsStep \/ HsRead

HandshakeSpec == InitHandshake /\ [][NextHandshake]_vars

\* the order of operations of one Configure handshake, up to its query
ConfigureOrder(text) ==
    <<WriteOp(CLS), ClearOp, SleepOp, WriteOp(text), SleepOp, WriteOp(OPC)>>

Writes(ops, text) == Cardinality({i \in 1..Len(ops) : ops[i] = WriteOp(text)})

C39_LogFixedInHandshake ==
    [][\A t \in Sessions :
          (\/ InHandshake(t)
           \/ pc'[t] = "hs_poll"
           \/ pc[t] = "drain" /\ deq' # deq) => data_list' = data_list]_vars

\* a poll has read a line that is not the token, with a Sample in the Log
C39_Witness ==
    \E t \in Sessions : InHandshake(t) /\ retries = 1 /\ Len(data_list) = 1

====
